---------------------------- MODULE Spec2Model ----------------------------
(***************************************************************************)
(* Model of the expense bot of main.py: the text extractors (structured    *)
(* and narrative), the amount and date parsers, the ledger merge           *)
(* (guardar_en_excel), the two deletions and the conversation dispatch.    *)
(*                                                                         *)
(* Texts are TLA+ strings in the state and sequences of one-character      *)
(* strings inside the parsers, so that the regular expressions of the      *)
(* source are matched character by character.                              *)
(***************************************************************************)
EXTENDS Integers, Sequences, FiniteSets, TLC

(***************************************************************************)
(* Characters and Python string methods                                    *)
(***************************************************************************)
Chars(s) == [i \in 1..Len(s) |-> SubSeq(s, i, i)]

RECURSIVE Join(_)
Join(cs) == IF cs = <<>> THEN "" ELSE Head(cs) \o Join(Tail(cs))

Digits == {"0", "1", "2", "3", "4", "5", "6", "7", "8", "9"}
LowerLetters == Chars("abcdefghijklmnopqrstuvwxyz")
UpperLetters == Chars("ABCDEFGHIJKLMNOPQRSTUVWXYZ")
Spaces == {" ", "\n", "\t"}

IsDigit(c) == c \in Digits
IsSpace(c) == c \in Spaces
\* \w of the re module on the characters of the model
IsWord(c) == \/ c \in Digits
             \/ c = "_"
             \/ \E i \in 1..26 : c = LowerLetters[i] \/ c = UpperLetters[i]

DigitVal(c) == CASE c = "0" -> 0 [] c = "1" -> 1 [] c = "2" -> 2 [] c = "3" -> 3
                 [] c = "4" -> 4 [] c = "5" -> 5 [] c = "6" -> 6 [] c = "7" -> 7
                 [] c = "8" -> 8 [] c = "9" -> 9

\* str.lower() and str.upper() on one character
LowerChar(c) == IF \E i \in 1..26 : c = UpperLetters[i]
                THEN LowerLetters[CHOOSE i \in 1..26 : c = UpperLetters[i]]
                ELSE IF c = "É" THEN "é" ELSE c
UpperChar(c) == IF \E i \in 1..26 : c = LowerLetters[i]
                THEN UpperLetters[CHOOSE i \in 1..26 : c = LowerLetters[i]]
                ELSE IF c = "é" THEN "É" ELSE c

Lower(cs) == [i \in 1..Len(cs) |-> LowerChar(cs[i])]

\* str.capitalize(): first character upper-cased, the rest lower-cased
Capitalize(cs) == [i \in 1..Len(cs) |->
                     IF i = 1 THEN UpperChar(cs[i]) ELSE LowerChar(cs[i])]

\* str.strip()
RECURSIVE LStrip(_)
LStrip(cs) == IF cs # <<>> /\ IsSpace(Head(cs)) THEN LStrip(Tail(cs)) ELSE cs
RECURSIVE RStrip(_)
RStrip(cs) == IF cs # <<>> /\ IsSpace(cs[Len(cs)])
              THEN RStrip(SubSeq(cs, 1, Len(cs) - 1)) ELSE cs
Strip(cs) == RStrip(LStrip(cs))

\* str.replace(a, b) for a one-character a; b is a sequence (possibly empty)
RECURSIVE Replace(_, _, _)
Replace(cs, a, b) ==
    IF cs = <<>> THEN <<>>
    ELSE (IF Head(cs) = a THEN b ELSE <<Head(cs)>>) \o Replace(Tail(cs), a, b)

Contains(cs, c) == \E i \in 1..Len(cs) : cs[i] = c

\* the suffix of cs that starts at position i (empty past the end)
From(cs, i) == SubSeq(cs, i, Len(cs))

\* cs has the literal w at position i
HasAt(cs, i, w) == /\ i >= 1
                   /\ i + Len(w) - 1 <= Len(cs)
                   /\ SubSeq(cs, i, i + Len(w) - 1) = w

\* normalizar_texto: lower(), then NFKD + ASCII 'ignore', which drops the
\* combining accent of an accented letter and the characters outside ASCII
normalizar_texto(cs) ==
    LET low == Lower(cs)
    IN  [i \in 1..Len(low) |-> IF low[i] = "é" THEN "e" ELSE low[i]]

(***************************************************************************)
(* Amounts.  A float is modelled by the decimal it denotes: mant / 10^frac,*)
(* with the trailing zeros of the fraction removed, so two records are     *)
(* equal exactly when the numbers are.                                     *)
(***************************************************************************)
RECURSIVE Normal(_, _)
Normal(mant, frac) == IF frac > 0 /\ mant % 10 = 0
                      THEN Normal(mant \div 10, frac - 1)
                      ELSE [mant |-> mant, frac |-> frac]

RECURSIVE DigitsValue(_)
DigitsValue(cs) == IF cs = <<>> THEN 0
                   ELSE DigitsValue(SubSeq(cs, 1, Len(cs) - 1)) * 10
                        + DigitVal(cs[Len(cs)])

CountOf(cs, c) == Cardinality({i \in 1..Len(cs) : cs[i] = c})

\* float(s) for a string of digits, '.' and ',': a ValueError (ok = FALSE)
\* unless s is digits with at most one '.', and at least one digit
float(cs) ==
    LET wellFormed == /\ \A i \in 1..Len(cs) : IsDigit(cs[i]) \/ cs[i] = "."
                      /\ CountOf(cs, ".") <= 1
                      /\ \E i \in 1..Len(cs) : IsDigit(cs[i])
        dot  == IF Contains(cs, ".") THEN CHOOSE i \in 1..Len(cs) : cs[i] = "."
                ELSE Len(cs) + 1
        digs == Replace(cs, ".", <<>>)
    IN  IF wellFormed
        THEN [ok |-> TRUE, val |-> Normal(DigitsValue(digs), Len(cs) - dot + 
                                            (IF dot > Len(cs) THEN 1 ELSE 0))]
        ELSE [ok |-> FALSE, val |-> Normal(0, 0)]

Positive(v) == v.mant > 0

RECURSIVE Pow10(_)
Pow10(n) == IF n <= 0 THEN 1 ELSE 10 * Pow10(n - 1)

\* a + b and a < b on amounts
Mas(a, b) ==
    LET f == IF a.frac > b.frac THEN a.frac ELSE b.frac
    IN  Normal(a.mant * Pow10(f - a.frac) + b.mant * Pow10(f - b.frac), f)
MenorQue(a, b) ==
    LET f == IF a.frac > b.frac THEN a.frac ELSE b.frac
    IN  a.mant * Pow10(f - a.frac) < b.mant * Pow10(f - b.frac)

\* lines 215-220: the cleaning of the amount token in structured mode
limpiar_monto(monto_str) ==
    IF Contains(monto_str, ",") /\ Contains(monto_str, ".")
    THEN Replace(Replace(monto_str, ".", <<>>), ",", <<".">>)
    ELSE IF Contains(monto_str, ",")
         THEN Replace(monto_str, ",", <<".">>)
         ELSE monto_str

\* lines 213-225: float() of the cleaned token, rejected when it is <= 0
parsear_monto(monto_str) ==
    LET f == float(limpiar_monto(monto_str))
    IN  IF f.ok /\ Positive(f.val) THEN f ELSE [ok |-> FALSE, val |-> Normal(0, 0)]

\* line 120 and 126: the amount of a narrative match
cantidad_audio(grupo2) ==
    float(Replace(Replace(Strip(grupo2), ".", <<>>), ",", <<".">>))

(***************************************************************************)
(* Dates.  A datetime is the number of hours since 0001-01-01 00:00 of the *)
(* proleptic Gregorian calendar (date.toordinal() * 24 + hour); NaT is the *)
(* missing date of pandas.                                                 *)
(***************************************************************************)
NaT == 0

IsLeap(y) == (y % 4 = 0 /\ y % 100 # 0) \/ y % 400 = 0

DaysInMonth(y, m) == IF m = 2 THEN (IF IsLeap(y) THEN 29 ELSE 28)
                     ELSE IF m \in {4, 6, 9, 11} THEN 30 ELSE 31

RECURSIVE DaysBeforeMonth(_, _)
DaysBeforeMonth(y, m) == IF m = 1 THEN 0
                         ELSE DaysBeforeMonth(y, m - 1) + DaysInMonth(y, m - 1)

\* date(y, m, d).toordinal()
Ordinal(y, m, d) == LET p == y - 1
                    IN  365 * p + (p \div 4) - (p \div 100) + (p \div 400)
                        + DaysBeforeMonth(y, m) + d

DateTime(y, m, d, h) == Ordinal(y, m, d) * 24 + h

\* datetime.year
YearOf(t) == LET n == t \div 24
                 g == ((n - 1) * 400) \div 146097 + 1
             IN  CHOOSE y \in (g - 1)..(g + 1) :
                     Ordinal(y, 1, 1) <= n /\ n < Ordinal(y + 1, 1, 1)

\* datetime.month
MonthOf(t) == CHOOSE m \in 1..12 :
                  /\ DateTime(YearOf(t), m, 1, 0) <= t
                  /\ t < DateTime(YearOf(t), m, DaysInMonth(YearOf(t), m), 24)

\* datetime.weekday(): Monday is 0
weekday(t) == ((t \div 24) + 6) % 7

\* datetime.replace(hour=12, minute=0, second=0, microsecond=0)
AtNoon(t) == (t \div 24) * 24 + 12

Days(n) == 24 * n

(***************************************************************************)
(* datetime.strptime for the six formats of _parsear_fecha_texto.  The     *)
(* directive regexes of _strptime are: %d 3[0-1]|[1-2]\d|0[1-9]|[1-9],     *)
(* %m 1[0-2]|0[1-9]|[1-9], %y \d\d, %Y \d\d\d\d; the whole string must be  *)
(* consumed and the date must exist (the year defaults to 1900).           *)
(***************************************************************************)
At(cs, i) == IF i >= 1 /\ i <= Len(cs) THEN cs[i] ELSE ""

\* the number of characters %d takes at position i (0: no match)
LenDay(cs, i) ==
    LET a == At(cs, i)
        b == At(cs, i + 1)
    IN  IF a = "3" /\ b \in {"0", "1"} THEN 2
        ELSE IF a \in {"1", "2"} /\ IsDigit(b) THEN 2
        ELSE IF a = "0" /\ IsDigit(b) /\ b # "0" THEN 2
        ELSE IF IsDigit(a) /\ a # "0" THEN 1
        ELSE 0

\* the number of characters %m takes at position i (0: no match)
LenMonth(cs, i) ==
    LET a == At(cs, i)
        b == At(cs, i + 1)
    IN  IF a = "1" /\ b \in {"0", "1", "2"} THEN 2
        ELSE IF a = "0" /\ IsDigit(b) /\ b # "0" THEN 2
        ELSE IF IsDigit(a) /\ a # "0" THEN 1
        ELSE 0

NoDate == [ok |-> FALSE, y |-> 0, m |-> 0, d |-> 0]

\* strptime(cs, "%d<sep>%m"): a ValueError unless the whole string matches
\* and the day exists in that month of 1900
strptime_dm(cs, sep) ==
    LET Fecha(ld, lm, d, m) ==
            IF /\ ld > 0
               /\ At(cs, ld + 1) = sep
               /\ lm > 0
               /\ Len(cs) = ld + 1 + lm
               /\ d <= DaysInMonth(1900, m)
            THEN [ok |-> TRUE, y |-> 1900, m |-> m, d |-> d]
            ELSE NoDate
        Campos(ld, lm) == Fecha(ld, lm, DigitsValue(SubSeq(cs, 1, ld)),
                                DigitsValue(SubSeq(cs, ld + 2, ld + 1 + lm)))
        Dia(ld) == Campos(ld, LenMonth(cs, ld + 2))
    IN  Dia(LenDay(cs, 1))

\* strptime(cs, "%d<sep>%m<sep>%y") for ylen = 2 and "...%Y" for ylen = 4;
\* %y gives 2000 + yy for yy <= 68 and 1900 + yy otherwise
strptime_dmy(cs, sep, ylen) ==
    LET Fecha(ld, lm, ys, d, m, y) ==
            IF /\ ld > 0
               /\ At(cs, ld + 1) = sep
               /\ lm > 0
               /\ At(cs, ld + lm + 2) = sep
               /\ Len(cs) = ys + ylen - 1
               /\ \A i \in ys..Len(cs) : IsDigit(cs[i])
               /\ y >= 1
               /\ d <= DaysInMonth(y, m)
            THEN [ok |-> TRUE, y |-> y, m |-> m, d |-> d]
            ELSE NoDate
        Anio(yy) == IF ylen = 4 THEN yy
                    ELSE IF yy <= 68 THEN 2000 + yy ELSE 1900 + yy
        Campos(ld, lm, ys) ==
            Fecha(ld, lm, ys, DigitsValue(SubSeq(cs, 1, ld)),
                  DigitsValue(SubSeq(cs, ld + 2, ld + 1 + lm)),
                  Anio(DigitsValue(SubSeq(cs, ys, ys + ylen - 1))))
        Mes(ld, lm) == Campos(ld, lm, ld + lm + 3)
        Dia(ld) == Mes(ld, LenMonth(cs, ld + 2))
    IN  Dia(LenDay(cs, 1))

\* the text after the last occurrence of sep: str.split(sep)[-1]
RECURSIVE LastPart(_, _)
LastPart(cs, sep) ==
    IF cs = <<>> \/ cs[Len(cs)] = sep THEN <<>>
    ELSE LastPart(SubSeq(cs, 1, Len(cs) - 1), sep) \o <<cs[Len(cs)]>>

\* a ValueError with its message; every except clause of the two loops
\* catches it and goes on to the next format, whatever the message
ValueError(msg) == [ok |-> FALSE, ts |-> NaT, error |-> msg]

\* line 167: the error raised when no format has returned a date
DateError == ValueError("Formato fecha no soportado")

\* lines 141-151: day and month without a year
fecha_sin_anio(s, hoy) ==
    LET Fecha(p, year_to_use) ==
            IF p.ok THEN [ok |-> TRUE, ts |-> DateTime(year_to_use, p.m, p.d, 12),
                          error |-> ""]
            ELSE ValueError("strptime")
        Anio(p, anio, temp_date) ==
            Fecha(p, IF temp_date > hoy + Days(1) THEN anio - 1 ELSE anio)
        Temp(p, anio) == Anio(p, anio, DateTime(anio, p.m, p.d, 12))
        Formato(p) == Temp(IF p.ok THEN p ELSE strptime_dm(s, "-"), YearOf(hoy))
    IN  Formato(strptime_dm(s, "/"))

\* a variant of the formats with a year that has no future check
fecha_con_anio_sin_limite(s, sep, ylen, hoy) ==
    LET Fecha(p, year) ==
            IF ~p.ok \/ p.d > DaysInMonth(year, p.m) THEN ValueError("strptime")
            ELSE [ok |-> TRUE, ts |-> DateTime(year, p.m, p.d, 12), error |-> ""]
        Siglo(p, two) == Fecha(p, IF two /\ p.y < 70 THEN p.y + 2000
                                  ELSE IF two /\ p.y < 100 THEN p.y + 1900
                                  ELSE p.y)
    IN  Siglo(strptime_dmy(s, sep, ylen),
              Len(LastPart(s, "/")) = 2 \/ Len(LastPart(s, "-")) = 2)

\* lines 154-166 for one format: the century correction of lines 158-160 and
\* the future check, whose ValueError (line 164) is raised inside the try of
\* the loop
fecha_con_anio(s, sep, ylen, hoy) ==
    LET Fecha(p, year, final_date) ==
            IF ~p.ok \/ p.d > DaysInMonth(year, p.m) THEN ValueError("strptime")
            ELSE IF final_date > hoy + Days(3)
            THEN ValueError("Fecha futura no permitida")
            ELSE [ok |-> TRUE, ts |-> final_date, error |-> ""]
        Final(p, year) == Fecha(p, year, DateTime(year, p.m, p.d, 12))
        Siglo(p, two) == Final(p, IF two /\ p.y < 70 THEN p.y + 2000
                                  ELSE IF two /\ p.y < 100 THEN p.y + 1900
                                  ELSE p.y)
    IN  Siglo(strptime_dmy(s, sep, ylen),
              Len(LastPart(s, "/")) = 2 \/ Len(LastPart(s, "-")) = 2)

\* _parsear_fecha_texto: ok = FALSE is the ValueError of line 167
parsear_fecha_texto(fecha_str, hoy) ==
    LET Primero(r, resto) == IF r.ok THEN r ELSE resto
        Formatos(s) ==
            Primero(fecha_sin_anio(s, hoy),
            Primero(fecha_con_anio(s, "/", 2, hoy),
            Primero(fecha_con_anio(s, "-", 2, hoy),
            Primero(fecha_con_anio(s, "/", 4, hoy),
            Primero(fecha_con_anio(s, "-", 4, hoy), DateError)))))
        Fecha(s) ==
            IF s = Chars("ayer")
            THEN [ok |-> TRUE, ts |-> AtNoon(hoy - Days(1)), error |-> ""]
            ELSE IF s = Chars("hoy")
            THEN [ok |-> TRUE, ts |-> AtNoon(hoy), error |-> ""]
            ELSE Formatos(s)
    IN  Fecha(Lower(Strip(fecha_str)))

(***************************************************************************)
(* Structured mode: _procesar_y_guardar_gasto_texto, lines 186-237         *)
(***************************************************************************)
\* re.split(r'[.\n]+', texto): the pieces between the separators
RECURSIVE SplitLines(_, _)
SplitLines(cs, cur) ==
    IF cs = <<>> THEN <<cur>>
    ELSE IF Head(cs) \in {".", "\n"}
         THEN <<cur>> \o SplitLines(Tail(cs), <<>>)
         ELSE SplitLines(Tail(cs), Append(cur, Head(cs)))

\* line 192: the stripped, non-empty pieces
lineas(texto) ==
    LET F[i \in 0..Len(SplitLines(texto, <<>>))] ==
            IF i = 0 THEN <<>>
            ELSE LET l == Strip(SplitLines(texto, <<>>)[i])
                 IN  IF l = <<>> THEN F[i - 1] ELSE Append(F[i - 1], l)
    IN  F[Len(SplitLines(texto, <<>>))]

\* the length of the longest run of characters of set S at position i
RECURSIVE RunLen(_, _, _)
RunLen(cs, i, S) == IF i <= Len(cs) /\ cs[i] \in S
                    THEN 1 + RunLen(cs, i + 1, S) ELSE 0

AmountChars == Digits \cup {".", ","}

NoMatch == [ok |-> FALSE, monto_str |-> <<>>, descripcion |-> <<>>,
            fecha_str |-> <<>>, con_fecha |-> FALSE]

\* whether cs[i..] is \s+\((.+)\)\s*$ : the optional date group of the pattern
DateGroupAt(cs, i) ==
    LET ws == RunLen(cs, i, Spaces)
        e  == Len(RStrip(cs))
    IN  /\ ws >= 1
        /\ At(cs, i + ws) = "("
        /\ e > i + ws + 1
        /\ cs[e] = ")"
        /\ \A j \in (i + ws + 1)..(e - 1) : cs[j] # "\n"

\* line 190 and 202: re.match(patron, linea, re.IGNORECASE), with
\* patron = ^\s*([\d.,]+)\s+(?:en|de|para)\s+(.+?)(?:\s+\((.+)\))?\s*$
match_patron(linea) ==
    LET Menor(S) == CHOOSE i \in S : \A j \in S : i <= j
        Grupos(a0, al, d0, e, cuts, cut) ==
            [ok |-> TRUE,
             monto_str |-> SubSeq(linea, a0, a0 + al - 1),
             descripcion |-> SubSeq(linea, d0, cut - 1),
             fecha_str |-> IF cuts = {} THEN <<>>
                           ELSE SubSeq(linea, cut + RunLen(linea, cut, Spaces) + 1,
                                       e - 1),
             con_fecha |-> cuts # {}]
        \* (.+?) is lazy: the first end at which the rest of the pattern matches
        Corte(a0, al, d0, e, cuts) ==
            Grupos(a0, al, d0, e, cuts, IF cuts = {} THEN e + 1 ELSE Menor(cuts))
        Descripcion(a0, al, d0, e) ==
            IF d0 <= e /\ \A j \in d0..e : linea[j] # "\n"
            THEN Corte(a0, al, d0, e, {i \in (d0 + 1)..e : DateGroupAt(linea, i)})
            ELSE NoMatch
        Conector(a0, al, c0, cl) ==
            IF cl >= 1
            THEN Descripcion(a0, al, c0 + cl + RunLen(linea, c0 + cl, Spaces),
                             Len(RStrip(linea)))
            ELSE NoMatch
        LargoConector(low, c0) ==
            IF HasAt(low, c0, Chars("en")) /\ IsSpace(At(low, c0 + 2)) THEN 2
            ELSE IF HasAt(low, c0, Chars("de")) /\ IsSpace(At(low, c0 + 2)) THEN 2
            ELSE IF HasAt(low, c0, Chars("para")) /\ IsSpace(At(low, c0 + 4)) THEN 4
            ELSE 0
        Espacios(a0, al, w1) ==
            IF al >= 1 /\ w1 >= 1
            THEN Conector(a0, al, a0 + al + w1,
                          LargoConector(Lower(linea), a0 + al + w1))
            ELSE NoMatch
        Monto(a0, al) == Espacios(a0, al, RunLen(linea, a0 + al, Spaces))
        Inicio(a0) == Monto(a0, RunLen(linea, a0, AmountChars))
    IN  Inicio(RunLen(linea, 1, Spaces) + 1)

\* lines 201-237 for one line: the entry it yields, or the error it records
procesar_linea(i, linea_limpia, nombre_usuario, hoy) ==
    LET Error(clase, fragmento) ==
            [ok |-> FALSE,
             error |-> [linea |-> i, clase |-> clase, fragmento |-> Join(fragmento)]]
        ConFecha(match, monto, fecha_str, fecha) ==
            IF ~fecha.ok THEN Error("Fecha invalida", fecha_str)
            ELSE [ok |-> TRUE,
                  entrada |-> [Tipo |-> "gasto", Monto |-> monto.val,
                               Descripcion |-> Join(Capitalize(Strip(match.descripcion))),
                               Usuario |-> nombre_usuario, Fecha |-> fecha.ts]]
        ConMonto(match, monto, fecha_str) ==
            IF ~monto.ok THEN Error("Monto invalido", match.monto_str)
            ELSE ConFecha(match, monto, fecha_str,
                          parsear_fecha_texto(Strip(fecha_str), hoy))
        ConMatch(match) ==
            IF ~match.ok THEN Error("Formato incorrecto", linea_limpia)
            ELSE ConMonto(match, parsear_monto(match.monto_str),
                          IF match.con_fecha THEN match.fecha_str ELSE Chars("hoy"))
    IN  ConMatch(match_patron(linea_limpia))

\* lines 186-237: the loop over the lines; an error skips the line (continue)
RECURSIVE procesar_lineas(_, _, _, _, _)
procesar_lineas(ls, i, nombre_usuario, hoy, acc) ==
    IF i > Len(ls) THEN acc
    ELSE LET Sigue(r) ==
                 procesar_lineas(ls, i + 1, nombre_usuario, hoy,
                     IF r.ok
                     THEN [acc EXCEPT !.transacciones = Append(@, r.entrada)]
                     ELSE [acc EXCEPT !.errores = Append(@, r.error)])
         IN  Sigue(procesar_linea(i, ls[i], nombre_usuario, hoy))

\* a variant of the extraction that gives up the whole message when one of
\* its lines is in error
procesar_texto_todo_o_nada(texto, nombre_usuario, hoy) ==
    LET r == procesar_lineas(lineas(Chars(texto)), 1, nombre_usuario, hoy,
                             [transacciones |-> <<>>, errores |-> <<>>])
    IN  IF r.errores = <<>> THEN r
        ELSE [transacciones |-> <<>>, errores |-> r.errores]

\* a variant of the extraction that numbers the lines in error from zero
procesar_texto_desde_cero(texto, nombre_usuario, hoy) ==
    LET r == procesar_lineas(lineas(Chars(texto)), 1, nombre_usuario, hoy,
                             [transacciones |-> <<>>, errores |-> <<>>])
    IN  [r EXCEPT !.errores = [k \in 1..Len(@) |->
                                  [@[k] EXCEPT !.linea = @ - 1]]]

\* the extraction of structured mode: (transacciones_procesadas, errores)
procesar_texto(texto, nombre_usuario, hoy) ==
    procesar_lineas(lineas(Chars(texto)), 1, nombre_usuario, hoy,
                    [transacciones |-> <<>>, errores |-> <<>>])

(***************************************************************************)
(* Narrative mode: procesar_texto_audio, lines 111-133                     *)
(***************************************************************************)
\* \b at position i: between cs[i-1] and cs[i], exactly one is a word char
WordBoundary(cs, i) == IsWord(At(cs, i - 1)) # IsWord(At(cs, i))

VerbAt(cs, i) ==
    IF HasAt(cs, i, Chars("compre")) /\ WordBoundary(cs, i) /\ WordBoundary(cs, i + 6)
    THEN "compre"
    ELSE IF HasAt(cs, i, Chars("gaste")) /\ WordBoundary(cs, i) /\ WordBoundary(cs, i + 5)
    THEN "gaste"
    ELSE ""

\* one attempt of the pattern at position i:
\*   \b(compre|gaste)\b[^\d]*([\d\.,]+)(.*?)(?=\b(?:compre|gaste)\b|$)
\* [^\d]* is greedy: it runs to the first digit after the verb; with no
\* digit left it backtracks to the last '.' or ',' of the text.
match_audio(cs, i) ==
    LET Menor(S) == CHOOSE j \in S : \A k \in S : j <= k
        Mayor(S) == CHOOSE j \in S : \A k \in S : j >= k
        Grupos(verb, a0, al, fin) ==
            [ok |-> TRUE, verbo |-> verb,
             grupo2 |-> SubSeq(cs, a0, a0 + al - 1),
             grupo3 |-> SubSeq(cs, a0 + al, fin - 1), fin |-> fin]
        Fin(verb, a0, al, nextVerb) ==
            Grupos(verb, a0, al,
                   IF nextVerb = {} THEN Len(cs) + 1 ELSE Menor(nextVerb))
        Resto(verb, a0, al) ==
            Fin(verb, a0, al, {j \in (a0 + al)..Len(cs) : VerbAt(cs, j) # ""})
        Monto(verb, a0) ==
            IF verb # "" /\ a0 > 0
            THEN Resto(verb, a0, RunLen(cs, a0, AmountChars))
            ELSE [ok |-> FALSE, verbo |-> "", grupo2 |-> <<>>, grupo3 |-> <<>>,
                  fin |-> i]
        Inicio(verb, digitAt, sepAt) ==
            Monto(verb, IF digitAt # {} THEN Menor(digitAt)
                        ELSE IF sepAt # {} THEN Mayor(sepAt)
                        ELSE 0)
        Verbo(verb, v1) ==
            Inicio(verb, {j \in v1..Len(cs) : IsDigit(cs[j])},
                         {j \in v1..Len(cs) : cs[j] \in {".", ","}})
        Busca(verb) == Verbo(verb, i + Len(verb))
    IN  Busca(VerbAt(cs, i))

\* re.sub(r'^\W+', '', s)
RECURSIVE StripNonWord(_)
StripNonWord(cs) == IF cs # <<>> /\ ~IsWord(Head(cs)) THEN StripNonWord(Tail(cs))
                    ELSE cs

\* re.sub(r'\s+', ' ', s)
RECURSIVE CollapseSpaces(_)
CollapseSpaces(cs) ==
    IF cs = <<>> THEN <<>>
    ELSE IF IsSpace(Head(cs))
         THEN <<" ">> \o CollapseSpaces(SubSeq(cs, 1 + RunLen(cs, 1, Spaces), Len(cs)))
         ELSE <<Head(cs)>> \o CollapseSpaces(Tail(cs))

\* lines 121-123
descripcion_audio(grupo3) ==
    LET d == Capitalize(CollapseSpaces(StripNonWord(Strip(grupo3))))
    IN  IF d = <<>> THEN "Sin descripcion" ELSE Join(d)

\* re.finditer from position i, lines 118-132: a match whose amount does not
\* convert (ValueError) is logged and yields nothing
RECURSIVE matches_audio(_, _, _, _)
matches_audio(cs, i, usuario, ahora) ==
    IF i > Len(cs) THEN <<>>
    ELSE LET Entrada(m, cantidad) ==
                 IF cantidad.ok
                 THEN <<[Tipo |-> IF m.verbo = "compre" THEN "compra" ELSE "gasto",
                         Monto |-> cantidad.val,
                         Descripcion |-> descripcion_audio(m.grupo3),
                         Usuario |-> usuario, Fecha |-> ahora]>>
                 ELSE <<>>
             Sigue(m) ==
                 IF ~m.ok THEN matches_audio(cs, i + 1, usuario, ahora)
                 ELSE Entrada(m, cantidad_audio(m.grupo2))
                      \o matches_audio(cs, m.fin, usuario, ahora)
         IN  Sigue(match_audio(cs, i))

procesar_texto_audio(texto, usuario, ahora) ==
    matches_audio(normalizar_texto(Chars(texto)), 1, usuario, ahora)

(***************************************************************************)
(* Keys and sessions                                                       *)
(***************************************************************************)
\* re.sub(r'\W+', '_', key) followed by re.sub(r'_+', '_', key)
RECURSIVE NonWordToUnderscore(_)
NonWordToUnderscore(cs) ==
    IF cs = <<>> THEN <<>>
    ELSE IF ~IsWord(Head(cs)) \/ Head(cs) = "_"
         THEN <<"_">> \o NonWordToUnderscore(
                  SubSeq(cs, 1 + RunLen(cs, 1, {c \in {cs[i] : i \in 1..Len(cs)} :
                                                  ~IsWord(c) \/ c = "_"}), Len(cs)))
         ELSE <<Head(cs)>> \o NonWordToUnderscore(Tail(cs))

RECURSIVE StripUnderscores(_)
StripUnderscores(cs) ==
    IF cs # <<>> /\ Head(cs) = "_" THEN StripUnderscores(Tail(cs))
    ELSE IF cs # <<>> /\ cs[Len(cs)] = "_"
         THEN StripUnderscores(SubSeq(cs, 1, Len(cs) - 1))
         ELSE cs

\* sanitize_key, lines 50-57
sanitize_key(key) ==
    LET k == StripUnderscores(NonWordToUnderscore(normalizar_texto(Strip(Chars(key)))))
    IN  IF k = <<>> THEN "invalid_key" ELSE Join(k)

\* a variant of int that reads 1 where there is no number
int_o_uno(texto) ==
    LET s == Strip(Chars(texto))
    IN  IF s # <<>> /\ \A i \in 1..Len(s) : IsDigit(s[i])
        THEN [ok |-> TRUE, val |-> DigitsValue(s)]
        ELSE [ok |-> TRUE, val |-> 1]

\* int(texto): optional surrounding whitespace and sign, then decimal digits
int(texto) ==
    LET s == Strip(Chars(texto))
        signo == IF s # <<>> /\ Head(s) \in {"+", "-"} THEN 1 ELSE 0
        ds == SubSeq(s, signo + 1, Len(s))
    IN  IF ds # <<>> /\ \A i \in 1..Len(ds) : IsDigit(ds[i])
        THEN [ok |-> TRUE,
              val |-> IF signo = 1 /\ Head(s) = "-" THEN 0 - DigitsValue(ds)
                      ELSE DigitsValue(ds)]
        ELSE [ok |-> FALSE, val |-> 0]

(***************************************************************************)
(* The bot: state                                                          *)
(***************************************************************************)
VARIABLES
    ahora,      \* datetime.now()
    archivos,   \* user_data/<clave>.xlsx: whether it exists, and its rows
    user_data,  \* context.user_data of each chat: the key and the cached indices
    conv,       \* the state of the three ConversationHandlers for each chat
    ultimo,     \* the last update handled and the reply it got
    listado,    \* history: the listing each chat has been sent and has not
                \* answered, cancelled or left by logging out
    entrada,    \* the input of the extractors when they are run on their own
    salida      \* their result

vars == <<ahora, archivos, user_data, conv, ultimo, listado, entrada, salida>>

\* bounds of the model: the rows a file can hold, the times the clock advances
MaxFilas == 2
MaxTicks == 1

Chats == {"c1"}
\* the chats of the runs in which two users share one key
Sesiones == {"c1", "c2"}
\* user.first_name of each chat
Nombre(c) == IF c = "c2" THEN "Luis" ELSE "Ana"

\* what the users type, and what the transcription service returns
ClaveTextos == {"Casa", " casa_", "!!"}
GastoTextos == {"5 en pan", "zz\n0 en x\n5 en pan\n9 en y (32/13)",
                "4 en gas (1/1/24)", "6 en luz (1/1/1500)"}
NumeroTextos == {"1", "2", "abc"}
Textos == GastoTextos \cup NumeroTextos
Transcripciones == {"gasté 8 en cafe", "hoy no gaste nada"}

Claves == {sanitize_key(t) : t \in ClaveTextos} \ {"invalid_key"}
\* the keys typed in the runs in which a user changes of key
ClaveTextosDos == {"Casa", "Otra"}

\* the clock starts on a morning and advances by six hours
Ahora0 == DateTime(2024, 7, 16, 9)
Horas == {Ahora0 + 6 * i : i \in 0..MaxTicks}

\* the extractions of the texts above, computed once
TablaTexto == [t \in Textos |-> [c \in Sesiones |-> [h \in Horas |->
                  procesar_texto(t, Nombre(c), h)]]]
TablaAudio == [t \in Transcripciones |-> [c \in Sesiones |-> [h \in Horas |->
                  procesar_texto_audio(t, Nombre(c), h)]]]
TablaLineas == [t \in Textos |-> lineas(Chars(t))]
TablaClave == [t \in ClaveTextos \cup ClaveTextosDos |-> sanitize_key(t)]
TablaInt == [t \in Textos |-> int(t)]

\* states of the conversations; TUPLA is the state a handler leaves when it
\* returns the pair (message, END) instead of END
END == "END"
ASKING_KEY == "ASKING_KEY"
ESPERANDO_GASTOS_COMANDO == "ESPERANDO_GASTOS_COMANDO"
ESPERANDO_NUMERO_ELIMINAR == "ESPERANDO_NUMERO_ELIMINAR"
TUPLA == "TUPLA"

SinFila == [Fecha |-> NaT, Usuario |-> "", Tipo |-> "",
            Monto |-> Normal(0, 0), Descripcion |-> ""]

\* a listing: the rows it showed, in the order of their numbers, and the
\* rows of the file it was made from
SinListado == [mostradas |-> <<>>, filas |-> <<>>]

\* an update and its reply; the fields a reply does not use keep these
\* values.  antes and listado are history:
\* the rows of the file when the handler started and the listing that a
\* confirmation answers.
Resp(c, handler, texto, clase) ==
    [chat |-> c, handler |-> handler, texto |-> texto, clase |-> clase,
     numero |-> 0, n |-> 0, fila |-> SinFila,
     guardadas |-> <<>>, errores |-> <<>>, antes |-> <<>>,
     listado |-> SinListado, escritura |-> "",
     total |-> Normal(0, 0), detalles |-> <<>>]

SinEntrada == [modo |-> "", monto |-> "", conector |-> "", fecha |-> "",
               clausulas |-> <<>>, texto |-> "", hoy |-> Ahora0]
SinSalida == [hecho |-> FALSE, transacciones |-> <<>>, errores |-> <<>>]

\* the columns of a ledger file (column_order, line 272)
Columnas == {"Fecha", "Usuario", "Tipo", "Monto", "Descripcion"}

\* the values of a missing cell: NaT in a date, NaN in a number, and the
\* missing value of a text column
NaN == [mant |-> 0, frac |-> 0 - 1]
NA == "NaN"

\* a file: missing, unreadable (empty or damaged, pd.read_excel raises), or
\* a sheet with its columns and rows
SinArchivo == [existe |-> FALSE, legible |-> FALSE, columnas |-> {},
               filas |-> <<>>]
Ilegible == [existe |-> TRUE, legible |-> FALSE, columnas |-> {},
             filas |-> <<>>]
Hoja(columnas, filas) == [existe |-> TRUE, legible |-> TRUE,
                          columnas |-> columnas, filas |-> filas]

\* what a write does: it succeeds, it fails before the file is opened and
\* leaves it as it was, or it fails after the file is opened for writing
\* and leaves it unreadable
Escrituras == {"ok", "falla", "trunca"}

\* a variant of the write that keeps the columns the file had
to_excel_mismas_columnas(archivo, columnas, filas, escritura) ==
    [ok |-> escritura = "ok", escritura |-> escritura,
     archivo |-> IF escritura = "ok" THEN Hoja(archivo.columnas, filas)
                 ELSE IF escritura = "falla" THEN archivo
                 ELSE Ilegible]

\* DataFrame.to_excel(path, index=False) of a sheet over the file `archivo`
to_excel(archivo, columnas, filas, escritura) ==
    [ok |-> escritura = "ok", escritura |-> escritura,
     archivo |-> IF escritura = "ok" THEN Hoja(columnas, filas)
                 ELSE IF escritura = "falla" THEN archivo
                 ELSE Ilegible]

\* the bot after main() has built the application: no file, no session
Inicio ==
    /\ ahora = Ahora0
    /\ archivos = [k \in Claves |-> SinArchivo]
    /\ user_data = [c \in Chats |-> [clave |-> "", indices |-> <<>>]]
    /\ conv = [c \in Chats |-> [auth |-> END, gasto |-> END, eliminar |-> END]]
    /\ ultimo = Resp("", "", "", "")
    /\ listado = [c \in Chats |-> SinListado]

Init ==
    /\ Inicio
    /\ entrada = SinEntrada
    /\ salida = SinSalida

\* get_user_file_path: "" stands for None
get_user_file_path(c) == user_data[c].clave

(***************************************************************************)
(* Ledger files                                                            *)
(***************************************************************************)
\* pd.to_datetime(..., errors='coerce') on a written date: a date outside
\* the range of datetime64[ns] becomes NaT
TimestampMin == DateTime(1677, 9, 21, 1)
TimestampMax == DateTime(2262, 4, 11, 23)
to_datetime(t) == IF t >= TimestampMin /\ t <= TimestampMax THEN t ELSE NaT

\* a variant of the sort that leaves the rows in the order of the file
sin_ordenar(filas, pos, ascending, na_first) ==
    {[a \in 1..Cardinality(pos) |->
         CHOOSE i \in pos : Cardinality({j \in pos : j <= i}) = a]}

\* the orders in which sort_values(by='Fecha') can leave the rows of `filas`
\* at the positions `pos`: ascending or descending by Fecha, the rows
\* without date first or last in their original order.  The default kind,
\* quicksort, is not stable: rows with equal dates may come out in any order.
Sorted(filas, pos, ascending, na_first) ==
    LET n == Cardinality(pos)
        nat == {i \in pos : filas[i].Fecha = NaT}
        Before(i, j) ==
            IF i \in nat /\ j \in nat THEN i < j
            ELSE IF i \in nat THEN na_first
            ELSE IF j \in nat THEN ~na_first
            ELSE IF filas[i].Fecha = filas[j].Fecha THEN TRUE
            ELSE IF ascending THEN filas[i].Fecha < filas[j].Fecha
            ELSE filas[i].Fecha > filas[j].Fecha
    IN  {p \in [1..n -> pos] :
            /\ \A a, b \in 1..n : a # b => p[a] # p[b]
            /\ \A a, b \in 1..n : a < b => Before(p[a], p[b])}

Pick(filas, p) == [a \in 1..Len(p) |-> filas[p[a]]]

\* a variant of drop that takes the index for a 1-based position
DropPosicion(filas, i) == [a \in 1..(Len(filas) - 1) |->
                             IF a <= i + 1 THEN filas[a] ELSE filas[a + 1]]

\* DataFrame.drop(index=i) for the 0-based index i of a file just read
Drop(filas, i) == [a \in 1..(Len(filas) - 1) |->
                     IF a <= i THEN filas[a] ELSE filas[a + 1]]

\* a variant of the completion that puts empty values, not missing ones
CompletaConVacios(fila, columnas) ==
    [Fecha |-> IF "Fecha" \in columnas THEN fila.Fecha ELSE NaT,
     Usuario |-> IF "Usuario" \in columnas THEN fila.Usuario ELSE "",
     Tipo |-> IF "Tipo" \in columnas THEN fila.Tipo ELSE "",
     Monto |-> IF "Monto" \in columnas THEN fila.Monto ELSE Normal(0, 0),
     Descripcion |-> IF "Descripcion" \in columnas THEN fila.Descripcion ELSE ""]

\* a row of a sheet with the columns `columnas` after pd.concat with the new
\* entries and the reordering by column_order (lines 308-312, 317-318): the
\* cells of the columns the sheet lacks are missing values
Completa(fila, columnas) ==
    [Fecha |-> IF "Fecha" \in columnas THEN fila.Fecha ELSE NaT,
     Usuario |-> IF "Usuario" \in columnas THEN fila.Usuario ELSE NA,
     Tipo |-> IF "Tipo" \in columnas THEN fila.Tipo ELSE NA,
     Monto |-> IF "Monto" \in columnas THEN fila.Monto ELSE NaN,
     Descripcion |-> IF "Descripcion" \in columnas THEN fila.Descripcion ELSE NA]

\* a variant of the merge that keeps one copy of each row
guardar_sin_repetidos(transacciones, archivo, escritura) ==
    LET Escribe(df_final, primeras) ==
            {to_excel(archivo, Columnas, Pick(df_final, p), escritura) :
                p \in Sorted(df_final, primeras, TRUE, TRUE)}
        Unicas(df_final) ==
            Escribe(df_final, {a \in 1..Len(df_final) :
                                  \A b \in 1..(a - 1) : df_final[b] # df_final[a]})
        Final(concat) ==
            Unicas([a \in 1..Len(concat) |->
                       [concat[a] EXCEPT !.Fecha = to_datetime(@)]])
        Existente(df_existente) ==
            Final([a \in 1..Len(df_existente) |->
                      Completa(df_existente[a], archivo.columnas)]
                  \o transacciones)
    IN  IF transacciones = <<>> THEN {[ok |-> FALSE, archivo |-> archivo]}
        ELSE Existente(IF archivo.existe /\ archivo.legible
                       THEN archivo.filas ELSE <<>>)

\* guardar_en_excel, lines 262-338: the results it can have, each with the
\* file it leaves.  The rows read (none when the file is missing, unreadable
\* or empty) are concatenated with the new ones, the dates are coerced and
\* the whole is sorted by Fecha, rows without date first, and written.
\* Every exception is caught (line 336) and reported as False.
guardar_en_excel(transacciones, archivo, escritura) ==
    LET Escribe(df_final) ==
            {to_excel(archivo, Columnas, Pick(df_final, p), escritura) :
                p \in Sorted(df_final, 1..Len(df_final), TRUE, TRUE)}
        Final(concat) ==
            Escribe([a \in 1..Len(concat) |->
                        [concat[a] EXCEPT !.Fecha = to_datetime(@)]])
        Existente(df_existente) ==
            Final([a \in 1..Len(df_existente) |->
                      Completa(df_existente[a], archivo.columnas)]
                  \o transacciones)
    IN  IF transacciones = <<>> THEN {[ok |-> FALSE, archivo |-> archivo]}
        ELSE Existente(IF archivo.existe /\ archivo.legible
                       THEN archivo.filas ELSE <<>>)

(***************************************************************************)
(* Dispatch: the handlers are all in group 0, so an update is handled by   *)
(* the first handler of main() (lines 1019-1042) that accepts it.  A       *)
(* ConversationHandler accepts an entry point only when its conversation   *)
(* is not running (no state), the handlers of the current state, and its   *)
(* fallbacks while the conversation is running.                            *)
(***************************************************************************)
\* a variant of the dispatch in which the generic text handler comes first
TextoVaAlGenerico(c) == "handle_generic_text_message"

\* a text that is not a command
TextoVaA(c) ==
    IF conv[c].auth = ASKING_KEY THEN "handle_key"
    ELSE IF conv[c].gasto = ESPERANDO_GASTOS_COMANDO THEN "procesar_gastos_texto_comando"
    ELSE IF conv[c].eliminar = ESPERANDO_NUMERO_ELIMINAR THEN "eliminar_gasto_confirmar"
    ELSE "handle_generic_text_message"

\* /cancel: the fallback of the first running conversation
CancelVaA(c) ==
    IF conv[c].auth # END THEN "auth"
    ELSE IF conv[c].gasto # END THEN "gasto"
    ELSE IF conv[c].eliminar # END THEN "eliminar"
    ELSE "unknown"

NoAutenticado(c, handler, texto) ==
    /\ get_user_file_path(c) = ""
    /\ ultimo' = Resp(c, handler, texto, "Necesitas iniciar sesion")

(***************************************************************************)
(* Handlers                                                                *)
(***************************************************************************)
\* the clock advances
Tick ==
    /\ ahora < Ahora0 + 6 * MaxTicks
    /\ ahora' = ahora + 6
    /\ UNCHANGED <<archivos, user_data, conv, ultimo, listado, entrada, salida>>

\* start, lines 824-843: entry point of the login conversation
start(c) ==
    /\ conv[c].auth = END
    /\ IF user_data[c].clave # ""
       THEN /\ ultimo' = Resp(c, "start", "/start", "Ya tienes una sesion activa")
            /\ UNCHANGED conv
       ELSE /\ ultimo' = Resp(c, "start", "/start", "Ingresa tu clave")
            /\ conv' = [conv EXCEPT ![c].auth = ASKING_KEY]
    /\ UNCHANGED <<ahora, archivos, user_data, listado, entrada, salida>>

\* a variant of the login that creates the file without looking for it
handle_key_sin_mirar(c, potential_key) ==
    /\ TextoVaA(c) = "handle_key"
    /\ LET sanitized_key == TablaClave[potential_key]
           Crea(r) ==
               /\ ultimo' = [Resp(c, "handle_key", potential_key,
                                  IF r.ok THEN "Se ha creado un nuevo registro"
                                  ELSE "Problema al crear tu archivo")
                               EXCEPT !.escritura = r.escritura]
               /\ archivos' = [archivos EXCEPT ![sanitized_key] = r.archivo]
       IN  IF sanitized_key = "invalid_key"
           THEN /\ ultimo' = Resp(c, "handle_key", potential_key, "Clave no valida")
                /\ UNCHANGED <<archivos, user_data, conv>>
           ELSE /\ user_data' = [user_data EXCEPT ![c].clave = sanitized_key]
                /\ conv' = [conv EXCEPT ![c].auth = END]
                /\ \E escritura \in Escrituras :
                           Crea(to_excel(archivos[sanitized_key], Columnas, <<>>,
                                         escritura))
    /\ UNCHANGED <<ahora, listado, entrada, salida>>

\* handle_key, lines 845-886
handle_key(c, potential_key) ==
    /\ TextoVaA(c) = "handle_key"
    /\ LET sanitized_key == TablaClave[potential_key]
           Crea(r) ==
               /\ ultimo' = [Resp(c, "handle_key", potential_key,
                                  IF r.ok THEN "Se ha creado un nuevo registro"
                                  ELSE "Problema al crear tu archivo")
                               EXCEPT !.escritura = r.escritura]
               /\ archivos' = [archivos EXCEPT ![sanitized_key] = r.archivo]
       IN  IF sanitized_key = "invalid_key"
           THEN /\ ultimo' = Resp(c, "handle_key", potential_key, "Clave no valida")
                /\ UNCHANGED <<archivos, user_data, conv>>
           ELSE /\ user_data' = [user_data EXCEPT ![c].clave = sanitized_key]
                /\ conv' = [conv EXCEPT ![c].auth = END]
                /\ IF archivos[sanitized_key].existe
                   THEN /\ ultimo' = Resp(c, "handle_key", potential_key,
                                          "Has iniciado sesion")
                        /\ UNCHANGED archivos
                   ELSE \E escritura \in Escrituras :
                           Crea(to_excel(archivos[sanitized_key], Columnas, <<>>,
                                         escritura))
    /\ UNCHANGED <<ahora, listado, entrada, salida>>

\* a variant of logout that leaves the cached indices in user_data
logout_con_indices(c) ==
    /\ user_data' = [user_data EXCEPT ![c].clave = ""]
    /\ ultimo' = Resp(c, "logout", "/logout",
                      IF user_data[c].clave # "" THEN "Tu sesion ha sido cerrada"
                      ELSE "No tenias una sesion activa")
    /\ listado' = [listado EXCEPT ![c] = SinListado]
    /\ UNCHANGED <<ahora, archivos, conv, entrada, salida>>

\* a variant of the logout that leaves the key in the session
logout_sin_cerrar(c) ==
    /\ user_data' = [user_data EXCEPT ![c].indices = <<>>]
    /\ ultimo' = Resp(c, "logout", "/logout",
                      IF user_data[c].clave # "" THEN "Tu sesion ha sido cerrada"
                      ELSE "No tenias una sesion activa")
    /\ listado' = [listado EXCEPT ![c] = SinListado]
    /\ UNCHANGED <<ahora, archivos, conv, entrada, salida>>

\* logout, lines 912-925
logout(c) ==
    /\ user_data' = [user_data EXCEPT ![c] = [clave |-> "", indices |-> <<>>]]
    /\ ultimo' = Resp(c, "logout", "/logout",
                      IF user_data[c].clave # "" THEN "Tu sesion ha sido cerrada"
                      ELSE "No tenias una sesion activa")
    /\ listado' = [listado EXCEPT ![c] = SinListado]
    /\ UNCHANGED <<ahora, archivos, conv, entrada, salida>>

\* cancel, lines 559-567: ends the conversation whose fallback took /cancel
cancel(c) ==
    /\ CancelVaA(c) # "unknown"
    /\ conv' = [conv EXCEPT ![c] =
                   IF CancelVaA(c) = "auth" THEN [@ EXCEPT !.auth = END]
                   ELSE IF CancelVaA(c) = "gasto" THEN [@ EXCEPT !.gasto = END]
                   ELSE [@ EXCEPT !.eliminar = END]]
    /\ user_data' = [user_data EXCEPT ![c].indices = <<>>]
    /\ ultimo' = Resp(c, "cancel", "/cancel", "Operacion cancelada")
    /\ listado' = [listado EXCEPT ![c] = SinListado]
    /\ UNCHANGED <<ahora, archivos, entrada, salida>>

\* unknown, lines 928-951: a command no other handler accepts; /cancel with
\* no conversation running, and the entry command of a conversation that is
\* already running
unknown(c, comando) ==
    /\ \/ comando = "/cancel" /\ CancelVaA(c) = "unknown"
       \/ comando = "/start" /\ conv[c].auth # END
       \/ comando = "/registrargasto" /\ conv[c].gasto # END
       \/ comando = "/eliminargasto" /\ conv[c].eliminar # END
    /\ ultimo' = Resp(c, "unknown", comando,
                      IF user_data[c].clave = "" THEN "No has iniciado sesion"
                      ELSE "No reconozco el comando")
    /\ UNCHANGED <<ahora, archivos, user_data, conv, listado, entrada, salida>>

\* a variant of the registration that does not look at the result of the merge
GuardarSinComprobar(c, handler, texto, nuevas, errores) ==
    LET clave == user_data[c].clave
        Responde(r) ==
            /\ archivos' = [archivos EXCEPT ![clave] = r.archivo]
            /\ ultimo' = [Resp(c, handler, texto,
                               "Gastos registrados")
                            EXCEPT !.guardadas = nuevas,
                                   !.errores = errores,
                                   !.antes = archivos[clave].filas,
                                   !.escritura = r.escritura]
    IN  /\ Len(archivos[clave].filas) + Len(nuevas) <= MaxFilas
        /\ \E escritura \in Escrituras :
              \E r \in guardar_en_excel(nuevas, archivos[clave], escritura) :
                 Responde(r)

\* lines 239-257 with guardar_en_excel: the batch is merged into the file of
\* the chat's key and the reply lists the saved entries, or says that the
\* save failed, and lists the line errors
Guardar(c, handler, texto, nuevas, errores) ==
    LET clave == user_data[c].clave
        Responde(r) ==
            /\ archivos' = [archivos EXCEPT ![clave] = r.archivo]
            /\ ultimo' = [Resp(c, handler, texto,
                               IF r.ok THEN "Gastos registrados"
                               ELSE "Fallo el guardado")
                            EXCEPT !.guardadas = IF r.ok THEN nuevas ELSE <<>>,
                                   !.errores = errores,
                                   !.antes = archivos[clave].filas,
                                   !.escritura = r.escritura]
    IN  /\ Len(archivos[clave].filas) + Len(nuevas) <= MaxFilas
        /\ \E escritura \in Escrituras :
              \E r \in guardar_en_excel(nuevas, archivos[clave], escritura) :
                 Responde(r)

\* _procesar_y_guardar_gasto_texto, lines 170-259
procesar_y_guardar_gasto_texto(c, handler, texto) ==
    LET r == TablaTexto[texto][c][ahora]
    IN  IF get_user_file_path(c) = ""
        THEN /\ ultimo' = Resp(c, handler, texto, "Error interno")
             /\ UNCHANGED archivos
        ELSE IF TablaLineas[texto] = <<>>
        THEN /\ ultimo' = Resp(c, handler, texto, "No detecte ningun gasto")
             /\ UNCHANGED archivos
        ELSE IF r.transacciones # <<>>
        THEN Guardar(c, handler, texto, r.transacciones, r.errores)
        ELSE /\ ultimo' = [Resp(c, handler, texto, "Errores encontrados")
                             EXCEPT !.errores = r.errores]
             /\ UNCHANGED archivos

\* registrar_gasto_texto_comando_start, lines 506-521: entry point
registrar_gasto_texto_comando_start(c) ==
    /\ conv[c].gasto = END
    /\ IF get_user_file_path(c) = ""
       THEN /\ NoAutenticado(c, "registrar_gasto_texto_comando_start", "/registrargasto")
            /\ UNCHANGED conv
       ELSE /\ ultimo' = Resp(c, "registrar_gasto_texto_comando_start",
                              "/registrargasto", "Enviame los gastos")
            /\ conv' = [conv EXCEPT ![c].gasto = ESPERANDO_GASTOS_COMANDO]
    /\ UNCHANGED <<ahora, archivos, user_data, listado, entrada, salida>>

\* procesar_gastos_texto_comando, lines 523-530
procesar_gastos_texto_comando(c, texto) ==
    /\ TextoVaA(c) = "procesar_gastos_texto_comando"
    /\ procesar_y_guardar_gasto_texto(c, "procesar_gastos_texto_comando", texto)
    /\ conv' = [conv EXCEPT ![c].gasto = END]
    /\ UNCHANGED <<ahora, user_data, listado, entrada, salida>>

\* handle_generic_text_message, lines 532-555
handle_generic_text_message(c, texto) ==
    /\ TextoVaA(c) = "handle_generic_text_message"
    /\ IF get_user_file_path(c) = ""
       THEN /\ NoAutenticado(c, "handle_generic_text_message", texto)
            /\ UNCHANGED archivos
       ELSE IF Len(texto) < 5 \/ ~\E i \in 1..Len(texto) : IsDigit(Chars(texto)[i])
       THEN /\ ultimo' = Resp(c, "handle_generic_text_message", texto, "")
            /\ UNCHANGED archivos
       ELSE procesar_y_guardar_gasto_texto(c, "handle_generic_text_message", texto)
    /\ UNCHANGED <<ahora, user_data, conv, listado, entrada, salida>>

\* handle_audio, lines 342-401, for the transcript the service returns
handle_audio(c, texto_transcrito) ==
    /\ LET transacciones == TablaAudio[texto_transcrito][c][ahora]
       IN  IF get_user_file_path(c) = ""
           THEN /\ NoAutenticado(c, "handle_audio", texto_transcrito)
                /\ UNCHANGED archivos
           ELSE IF transacciones # <<>>
           THEN Guardar(c, "handle_audio", texto_transcrito, transacciones, <<>>)
           ELSE /\ ultimo' = Resp(c, "handle_audio", texto_transcrito,
                                  "No se detectaron transacciones")
                /\ UNCHANGED archivos
    /\ UNCHANGED <<ahora, user_data, conv, listado, entrada, salida>>

\* eliminar_operacion, lines 403-466: the rows are sorted by Fecha, rows
\* without date last, and the last one is dropped from the file by its index
eliminar_operacion(c) ==
    LET clave == user_data[c].clave
        filas == archivos[clave].filas
        h == "eliminar_operacion"
        Responde(r, ultima_op) ==
            /\ archivos' = [archivos EXCEPT ![clave] = r.archivo]
            /\ ultimo' = [Resp(c, h, "/eliminaroperacion",
                               IF r.ok THEN "Ultima operacion eliminada"
                               ELSE "Error al guardar los cambios")
                            EXCEPT !.fila = IF r.ok THEN ultima_op ELSE SinFila,
                                   !.antes = filas,
                                   !.escritura = r.escritura]
    IN  /\ IF clave = ""
           THEN /\ NoAutenticado(c, h, "/eliminaroperacion")
                /\ UNCHANGED archivos
           ELSE IF ~archivos[clave].existe
           THEN /\ ultimo' = Resp(c, h, "/eliminaroperacion",
                                  "No hay operaciones registradas")
                /\ UNCHANGED archivos
           ELSE IF ~archivos[clave].legible
           THEN /\ \E clase \in {"Archivo de gastos vacio", "Error inesperado"} :
                      ultimo' = Resp(c, h, "/eliminaroperacion", clase)
                /\ UNCHANGED archivos
           ELSE IF filas = <<>>
           THEN /\ ultimo' = Resp(c, h, "/eliminaroperacion", "Archivo de gastos vacio")
                /\ UNCHANGED archivos
           ELSE \E p \in Sorted(filas, 1..Len(filas), TRUE, FALSE) :
                \E escritura \in Escrituras :
                   LET original_index == p[Len(filas)] - 1
                   IN  Responde(to_excel(archivos[clave], archivos[clave].columnas,
                                         Drop(filas, original_index), escritura),
                                filas[original_index + 1])
        /\ UNCHANGED <<ahora, user_data, conv, listado, entrada, salida>>

\* eliminar_gasto_start, lines 697-747: entry point of the deletion
\* conversation.  The rows with a date in the last 30 days are listed, most
\* recent first, and the index of each in the file read is cached.
eliminar_gasto_start(c) ==
    LET clave == user_data[c].clave
        filas == archivos[clave].filas
        h == "eliminar_gasto_start"
        hace_30_dias == ahora - Days(30)
        recientes == {i \in 1..Len(filas) :
                         filas[i].Fecha # NaT /\ filas[i].Fecha >= hace_30_dias}
        Termina(clase) == /\ ultimo' = Resp(c, h, "/eliminargasto", clase)
                          /\ conv' = [conv EXCEPT ![c].eliminar = TUPLA]
                          /\ UNCHANGED <<user_data, listado>>
        \* the except clause of line 744, which returns END as a state
        Falla(clase) == /\ ultimo' = Resp(c, h, "/eliminargasto", clase)
                        /\ UNCHANGED <<user_data, conv, listado>>
    IN  /\ conv[c].eliminar = END
        /\ IF clave = ""
           THEN /\ NoAutenticado(c, h, "/eliminargasto")
                /\ UNCHANGED <<user_data, conv, listado>>
           ELSE IF ~archivos[clave].existe THEN Termina("Sin registros")
           ELSE IF ~archivos[clave].legible
           THEN Termina("Archivo vacio") \/ Falla("Error al listar gastos")
           ELSE IF filas = <<>> THEN Termina("Archivo vacio")
           ELSE IF \A i \in 1..Len(filas) : filas[i].Fecha = NaT
           THEN Termina("Sin fechas validas")
           ELSE IF recientes = {} THEN Termina("No encontre gastos en los ultimos 30 dias")
           ELSE \E p \in Sorted(filas, recientes, FALSE, FALSE) :
                   /\ user_data' = [user_data EXCEPT ![c].indices =
                                       [a \in 1..Len(p) |-> p[a] - 1]]
                   /\ listado' = [listado EXCEPT ![c] =
                                     [mostradas |-> Pick(filas, p), filas |-> filas]]
                   /\ ultimo' = [Resp(c, h, "/eliminargasto", "Elige el numero")
                                   EXCEPT !.n = Len(p)]
                   /\ conv' = [conv EXCEPT ![c].eliminar = ESPERANDO_NUMERO_ELIMINAR]
        /\ UNCHANGED <<ahora, archivos, entrada, salida>>

\* a variant of the read that takes the rows read when the listing of the
\* chat was made
read_excel_del_listado(c, archivo) == listado[c].filas

\* pd.read_excel(user_file_path) of line 772: the rows of the file at the
\* time of the call, within the handler that writes them back
read_excel(c, archivo) == archivo.filas

\* eliminar_gasto_confirmar, lines 749-819
eliminar_gasto_confirmar(c, texto_usuario) ==
    LET clave == user_data[c].clave
        h == "eliminar_gasto_confirmar"
        indices == user_data[c].indices
        \* the finally clause of line 817 and the state the handler returns
        Sale(estado) == /\ user_data' = [user_data EXCEPT ![c].indices = <<>>]
                        /\ conv' = [conv EXCEPT ![c].eliminar = estado]
        \* lines 763-811, with the rows of the file and the number typed
        Confirma(filas, numero_elegido) ==
            LET Reply(clase) ==
                    [Resp(c, h, texto_usuario, clase)
                       EXCEPT !.numero = IF numero_elegido.ok
                                         THEN numero_elegido.val ELSE 0,
                              !.n = Len(indices), !.antes = filas,
                              !.listado = listado[c]]
                Escribe(r, gasto_eliminado) ==
                    /\ archivos' = [archivos EXCEPT ![clave] = r.archivo]
                    /\ ultimo' = [Reply(IF r.ok THEN "Gasto eliminado"
                                        ELSE "Error inesperado")
                                    EXCEPT !.fila = IF r.ok THEN gasto_eliminado
                                                    ELSE SinFila,
                                           !.escritura = r.escritura]
                    /\ Sale(END)
                Elimina(index_to_delete) ==
                    IF ~archivos[clave].existe
                    THEN /\ ultimo' = Reply("No se pudo leer el archivo")
                         /\ Sale(END)
                         /\ UNCHANGED archivos
                    ELSE IF ~archivos[clave].legible
                    THEN /\ \E clase \in {"No se pudo leer el archivo",
                                          "Error inesperado"} :
                               ultimo' = Reply(clase)
                         /\ Sale(END)
                         /\ UNCHANGED archivos
                    ELSE IF ~(index_to_delete < Len(filas))
                    THEN /\ ultimo' = Reply("El gasto ya no existe")
                         /\ Sale(END)
                         /\ UNCHANGED archivos
                    ELSE \E escritura \in Escrituras :
                            Escribe(to_excel(archivos[clave],
                                             archivos[clave].columnas,
                                             Drop(filas, index_to_delete),
                                             escritura),
                                    filas[index_to_delete + 1])
            IN  IF ~numero_elegido.ok
                   \/ ~(1 <= numero_elegido.val /\ numero_elegido.val <= Len(indices))
                THEN /\ ultimo' = Reply("Numero invalido")
                     /\ Sale(ESPERANDO_NUMERO_ELIMINAR)
                     /\ UNCHANGED archivos
                ELSE Elimina(indices[numero_elegido.val])
    IN  /\ TextoVaA(c) = "eliminar_gasto_confirmar"
        /\ listado' = [listado EXCEPT ![c] = SinListado]
        /\ IF clave = ""
           THEN /\ ultimo' = Resp(c, h, texto_usuario, "Error interno")
                /\ conv' = [conv EXCEPT ![c].eliminar = TUPLA]
                /\ UNCHANGED <<archivos, user_data>>
           ELSE IF indices = <<>>
           THEN /\ ultimo' = Resp(c, h, texto_usuario, "Empieza de nuevo")
                /\ conv' = [conv EXCEPT ![c].eliminar = END]
                /\ UNCHANGED <<archivos, user_data>>
           ELSE Confirma(read_excel(c, archivos[clave]), TablaInt[texto_usuario])
        /\ UNCHANGED <<ahora, entrada, salida>>

\* a variant of the key of a group that keeps the description as written
Descripcion_Escrita(descripcion) == descripcion

\* lines 616 and 676: the key of a group, .astype(str).str.lower().str.strip()
Descripcion_Norm(descripcion) == Join(Strip(Lower(Chars(descripcion))))

\* lines 607-622 and 668-681: the rows of the period with a date and a
\* kind of expense, their total and their groups by normalized description,
\* in each order sort_values can leave them
resumen(df, inicio, fin) ==
    LET filas == {i \in 1..Len(df) :
                     /\ to_datetime(df[i].Fecha) # NaT
                     /\ df[i].Fecha >= inicio /\ df[i].Fecha < fin
                     /\ Join(Lower(Chars(df[i].Tipo))) \in {"gasto", "compra"}}
        gastos == [a \in 1..Cardinality(filas) |->
                      df[CHOOSE i \in filas :
                            Cardinality({j \in filas : j <= i}) = a]]
        Monto(f) == IF f.Monto = NaN THEN Normal(0, 0) ELSE f.Monto
        Clave(f) == Descripcion_Norm(f.Descripcion)
        Suma[n \in 0..Len(gastos), k \in {"", "*"} \cup
                                          {Clave(gastos[i]) :
                                              i \in 1..Len(gastos)}] ==
            IF n = 0 THEN Normal(0, 0)
            ELSE IF k = "*" \/ Clave(gastos[n]) = k
                 THEN Mas(Suma[n - 1, k], Monto(gastos[n]))
                 ELSE Suma[n - 1, k]
        claves == {Clave(gastos[i]) : i \in 1..Len(gastos)}
        Grupo(k) ==
            [Descripcion_Norm |-> k,
             Monto_Total |-> Suma[Len(gastos), k],
             Descripcion_Original |->
                 gastos[CHOOSE i \in 1..Len(gastos) :
                           /\ Clave(gastos[i]) = k
                           /\ \A j \in 1..(i - 1) :
                                 Clave(gastos[j]) # k].Descripcion]
        ordenes == {o \in [1..Cardinality(claves) -> claves] :
                       /\ \A a, b \in DOMAIN o : a # b => o[a] # o[b]
                       /\ \A a, b \in DOMAIN o :
                             a < b => ~MenorQue(Grupo(o[a]).Monto_Total,
                                                Grupo(o[b]).Monto_Total)}
    IN  {[n |-> Len(gastos), total |-> Suma[Len(gastos), "*"],
          detalles |-> [a \in DOMAIN o |-> Grupo(o[a])]] : o \in ordenes}

\* the replies of gasto_semanal and gasto_mensual, which differ in the
\* period: the dates from inicio up to fin, fin not included
reporte(c, h, comando, inicio, fin) ==
    LET archivo == archivos[user_data[c].clave]
        Responde(clase) == {Resp(c, h, comando, clase)}
        Resume(r) == [Resp(c, h, comando, IF r.n = 0 THEN "No encontre gastos"
                                          ELSE "Resumen")
                        EXCEPT !.n = r.n, !.total = r.total,
                               !.detalles = r.detalles, !.antes = archivo.filas]
    IN  IF ~archivo.existe THEN Responde("Sin registros")
        ELSE IF ~archivo.legible
        THEN Responde("Archivo de gastos vacio") \cup Responde("Error inesperado")
        ELSE IF archivo.filas = <<>> THEN Responde("Sin gastos registrados")
        ELSE IF "Fecha" \notin archivo.columnas THEN Responde("Falta columna Fecha")
        ELSE IF "Monto" \notin archivo.columnas THEN Responde("Falta columna Monto")
        ELSE IF \A i \in 1..Len(archivo.filas) :
                   to_datetime(archivo.filas[i].Fecha) = NaT
        THEN Responde("Sin fechas validas")
        ELSE {Resume(r) : r \in resumen(archivo.filas, inicio, fin)}

\* gasto_semanal, lines 571-633: from the Monday of this week at 00:00, with
\* no end (no date is past TimestampMax)
gasto_semanal(c) ==
    LET hoy == ahora
        inicio_semana == ((hoy \div 24) - weekday(hoy)) * 24
        sin_fin == TimestampMax + 1
    IN  /\ IF user_data[c].clave = ""
           THEN NoAutenticado(c, "gasto_semanal", "/gastosemanal")
           ELSE ultimo' \in reporte(c, "gasto_semanal", "/gastosemanal",
                                inicio_semana, sin_fin)
        /\ UNCHANGED <<ahora, archivos, user_data, conv, listado, entrada, salida>>

\* gasto_mensual, lines 635-692: from the first of this month at 00:00 to
\* the first of the next one
gasto_mensual(c) ==
    LET hoy == ahora
        inicio_mes_actual == DateTime(YearOf(hoy), MonthOf(hoy), 1, 0)
        fin == DateTime(YearOf(hoy), MonthOf(hoy),
                        DaysInMonth(YearOf(hoy), MonthOf(hoy)), 24)
    IN  /\ IF user_data[c].clave = ""
           THEN NoAutenticado(c, "gasto_mensual", "/gastomensual")
           ELSE ultimo' \in reporte(c, "gasto_mensual", "/gastomensual",
                                inicio_mes_actual, fin)
        /\ UNCHANGED <<ahora, archivos, user_data, conv, listado, entrada, salida>>

\* descargar_excel, lines 468-502: the file is sent as it is; a file of less
\* than 50 bytes is read first
descargar_excel(c) ==
    LET clave == user_data[c].clave
        archivo == archivos[clave]
        h == "descargar_excel"
        Responde(clase) == ultimo' = Resp(c, h, "/descargarexcel", clase)
    IN  /\ IF clave = "" THEN NoAutenticado(c, h, "/descargarexcel")
           ELSE IF ~archivo.existe THEN Responde("Aun no tienes un archivo")
           ELSE IF ~archivo.legible
           THEN \/ Responde("Archivo vacio o no se puede leer")
                \/ Responde("Error inesperado")
                \/ ultimo' = [Resp(c, h, "/descargarexcel", "Documento")
                                EXCEPT !.antes = archivo.filas]
           ELSE ultimo' = [Resp(c, h, "/descargarexcel", "Documento")
                             EXCEPT !.antes = archivo.filas]
        /\ UNCHANGED <<ahora, archivos, user_data, conv, listado, entrada, salida>>

(***************************************************************************)
(* The bot                                                                 *)
(***************************************************************************)
Next ==
    \/ Tick
    \/ \E c \in Chats : start(c)
    \/ \E c \in Chats : \E t \in ClaveTextos : handle_key(c, t)
    \/ \E c \in Chats : logout(c)
    \/ \E c \in Chats : cancel(c)
    \/ \E c \in Chats :
          \E m \in {"/cancel", "/start", "/registrargasto", "/eliminargasto"} :
             unknown(c, m)
    \/ \E c \in Chats : registrar_gasto_texto_comando_start(c)
    \/ \E c \in Chats : \E t \in Textos : procesar_gastos_texto_comando(c, t)
    \/ \E c \in Chats : \E t \in Textos : handle_generic_text_message(c, t)
    \/ \E c \in Chats : \E t \in Transcripciones : handle_audio(c, t)
    \/ \E c \in Chats : eliminar_operacion(c)
    \/ \E c \in Chats : descargar_excel(c)
    \/ \E c \in Chats : gasto_semanal(c)
    \/ \E c \in Chats : gasto_mensual(c)
    \/ \E c \in Chats : eliminar_gasto_start(c)
    \/ \E c \in Chats : \E t \in Textos : eliminar_gasto_confirmar(c, t)

Spec == Init /\ [][Next]_vars


(***************************************************************************)
(* One user and two keys: the bot after main() has built the application,  *)
(* and the handlers of the session and of the selective deletion.          *)
(***************************************************************************)
InitDosClaves ==
    /\ ahora = Ahora0
    /\ archivos = [k \in {sanitize_key(t) : t \in ClaveTextosDos} |-> SinArchivo]
    /\ user_data = [c \in Chats |-> [clave |-> "", indices |-> <<>>]]
    /\ conv = [c \in Chats |-> [auth |-> END, gasto |-> END, eliminar |-> END]]
    /\ ultimo = Resp("", "", "", "")
    /\ listado = [c \in Chats |-> SinListado]
    /\ entrada = SinEntrada
    /\ salida = SinSalida

NextDosClaves ==
    \/ \E c \in Chats : start(c)
    \/ \E c \in Chats : \E t \in ClaveTextosDos : handle_key(c, t)
    \/ \E c \in Chats : logout(c)
    \/ \E c \in Chats : cancel(c)
    \/ \E c \in Chats : \E t \in {"5 en pan", "1", "2"} :
          handle_generic_text_message(c, t)
    \/ \E c \in Chats : eliminar_gasto_start(c)
    \/ \E c \in Chats : \E t \in {"5 en pan", "1", "2"} :
          eliminar_gasto_confirmar(c, t)

KeySpec == InitDosClaves /\ [][NextDosClaves]_vars


(***************************************************************************)
(* Two chats logged in with the same key, the state after /start and the   *)
(* key in each (lines 845-886): the handlers that write the file of the    *)
(* key run for either chat in any order.  The application is built without *)
(* concurrent_updates (lines 974-979) and no handler awaits between its    *)
(* read and its write of the file, so each invocation is one step.         *)
(***************************************************************************)
InitCompartido ==
    /\ ahora = Ahora0
    /\ archivos = [k \in Claves |-> to_excel(SinArchivo, Columnas, <<>>, "ok").archivo]
    /\ user_data = [c \in Sesiones |-> [clave |-> "casa", indices |-> <<>>]]
    /\ conv = [c \in Sesiones |-> [auth |-> END, gasto |-> END, eliminar |-> END]]
    /\ ultimo = Resp("", "", "", "")
    /\ listado = [c \in Sesiones |-> SinListado]
    /\ entrada = SinEntrada
    /\ salida = SinSalida

NextCompartido ==
    \/ \E c \in Sesiones : \E t \in {"5 en pan", "4 en gas (1/1/24)"} :
          handle_generic_text_message(c, t)
    \/ \E c \in Sesiones : eliminar_operacion(c)
    \/ \E c \in Sesiones : eliminar_gasto_start(c)
    \/ \E c \in Sesiones : \E t \in {"1", "2"} : eliminar_gasto_confirmar(c, t)
    \/ \E c \in Sesiones : cancel(c)

SharedSpec == InitCompartido /\ [][NextCompartido]_vars


(***************************************************************************)
(* The extractors on their own: one message is drawn and the extraction of *)
(* lines 186-237 (structured) or 111-133 (narrative) is applied to it.     *)
(***************************************************************************)
\* the amount, the connector and the date a user can write in a line
Montos == {"5", "1200.50", "1200,50", "1.234,56", "1,234.56", "1.234",
           "12.5", "0"}
Conectores == {"en", "de", "para"}
FechasTexto == {"", " (ayer)", " (32/13)"}
Verbos == {"gasté", "compre"}
Hoy == {Ahora0, DateTime(2024, 12, 31, 23)}

EntradasTexto ==
    {[modo |-> "texto", monto |-> m, conector |-> k, fecha |-> f,
      clausulas |-> <<>>,
      texto |-> m \o " " \o k \o " supermercado" \o f, hoy |-> h] :
        m \in Montos, k \in Conectores, f \in FechasTexto, h \in Hoy}

\* transcripts of several clauses "<verb> <amount> en <item>" joined by "y";
\* the amount 1,2,3 is not a number, and one clause states no amount
Relatos ==
    {<<[verbo |-> "gaste", monto |-> "500", item |-> "cafe"],
       [verbo |-> "compre", monto |-> "1200", item |-> "zapatos"]>>,
     <<[verbo |-> "compré", monto |-> "30", item |-> "nafta"],
       [verbo |-> "gasté", monto |-> "7", item |-> "pan"],
       [verbo |-> "gaste", monto |-> "9", item |-> "te"]>>,
     <<[verbo |-> "gaste", monto |-> "1,2,3", item |-> "pan"],
       [verbo |-> "compre", monto |-> "5", item |-> "te"]>>,
     <<[verbo |-> "gaste", monto |-> "", item |-> "pan"],
       [verbo |-> "compre", monto |-> "5", item |-> "te"]>>}

RECURSIVE Relato(_, _)
Relato(r, i) ==
    r[i].verbo \o " " \o r[i].monto \o " en " \o r[i].item
    \o (IF i = Len(r) THEN "" ELSE " y " \o Relato(r, i + 1))

EntradasAudio ==
    {[modo |-> "audio", monto |-> m, conector |-> "en", fecha |-> "",
      clausulas |-> <<[verbo |-> v, monto |-> m, item |-> "pan"]>>,
      texto |-> v \o " " \o m \o " en pan", hoy |-> h] :
        v \in Verbos, m \in Montos, h \in Hoy}
    \cup {[modo |-> "audio", monto |-> "", conector |-> "en", fecha |-> "",
           clausulas |-> r, texto |-> Relato(r, 1), hoy |-> h] :
            r \in Relatos, h \in Hoy}

InitExtraccion ==
    /\ Inicio
    /\ entrada \in EntradasTexto \cup EntradasAudio
    /\ salida = SinSalida

\* lines 186-237 on the text of a message
extraer_texto ==
    /\ entrada.modo = "texto"
    /\ ~salida.hecho
    /\ salida' = [hecho |-> TRUE] @@
                 procesar_texto(entrada.texto, Nombre("c1"), entrada.hoy)
    /\ UNCHANGED <<ahora, archivos, user_data, conv, ultimo, listado, entrada>>

\* procesar_texto_audio on the transcript of a voice message
extraer_audio ==
    /\ entrada.modo = "audio"
    /\ ~salida.hecho
    /\ salida' = [hecho |-> TRUE, errores |-> <<>>,
                  transacciones |->
                      procesar_texto_audio(entrada.texto, Nombre("c1"), entrada.hoy)]
    /\ UNCHANGED <<ahora, archivos, user_data, conv, ultimo, listado, entrada>>

NextExtraccion == extraer_texto \/ extraer_audio

ExtractSpec == InitExtraccion /\ [][NextExtraccion]_vars


(***************************************************************************)
(* The date resolver on its own: a date token is drawn and                 *)
(* _parsear_fecha_texto, lines 135-167, is applied to it.                  *)
(***************************************************************************)
\* the days, months and years a user can write, and the moments of writing
DiasFecha == 1..31
MesesFecha == 1..12
DiasConAnio == {1, 3, 4, 29}
MesesConAnio == {1, 2, 12}
AniosCortos == 0..99
AniosLargos == {2023, 2024, 2025, 2069}
Separadores == {"/", "-"}
HoyFecha == {Ahora0, DateTime(2024, 12, 31, 23)}

\* a year of two digits as it is written
DosDigitos(yy) == IF yy < 10 THEN "0" \o ToString(yy) ELSE ToString(yy)

\* a token with its parts: digitos is the number of digits of the year
\* (0: none) and anio the number they write
Ficha(d, m, sep, digitos, anio, h) ==
    [modo |-> "fecha", d |-> d, m |-> m, sep |-> sep, digitos |-> digitos,
     anio |-> anio, hoy |-> h,
     texto |-> ToString(d) \o sep \o ToString(m) \o
               (IF digitos = 0 THEN ""
                ELSE IF digitos = 2 THEN sep \o DosDigitos(anio)
                ELSE sep \o ToString(anio))]

EntradasFecha ==
    {Ficha(d, m, sep, 0, 0, h) :
        d \in DiasFecha, m \in MesesFecha, sep \in Separadores, h \in HoyFecha}
    \cup {Ficha(d, m, sep, 2, yy, h) :
        d \in DiasConAnio, m \in MesesConAnio, sep \in Separadores,
        yy \in AniosCortos, h \in HoyFecha}
    \cup {Ficha(d, m, sep, 4, y, h) :
        d \in DiasConAnio, m \in MesesConAnio, sep \in Separadores,
        y \in AniosLargos, h \in HoyFecha}

SinFecha == [hecho |-> FALSE, fecha |-> DateError]

InitFecha ==
    /\ Inicio
    /\ entrada \in EntradasFecha
    /\ salida = SinFecha

\* _parsear_fecha_texto on the token
resolver_fecha ==
    /\ ~salida.hecho
    /\ salida' = [hecho |-> TRUE,
                  fecha |-> parsear_fecha_texto(Chars(entrada.texto), entrada.hoy)]
    /\ UNCHANGED <<ahora, archivos, user_data, conv, ultimo, listado, entrada>>

NextFecha == resolver_fecha

FechaSpec == InitFecha /\ [][NextFecha]_vars

(***************************************************************************)
(* The merge on its own: guardar_en_excel applied, once and again, to a    *)
(* batch of extracted entries and a file that is missing, unreadable, or   *)
(* a sheet with all or some of the columns.                                *)
(***************************************************************************)
MaxIntentos == 2

\* the batches: the entries of the messages, and of a message of two lines
Lotes ==
    {procesar_texto(t, "Ana", Ahora0).transacciones :
        t \in GastoTextos \cup {"5 en pan\n4 en gas (1/1/24)"}} \ {<<>>}

\* the files the merge finds: none, an unreadable one, and sheets with all
\* the columns, all but one, or two of them, that are empty or hold the rows
\* a merge has written
ArchivosPrevios ==
    LET ColumnasPrevias ==
            {Columnas, Columnas \ {"Usuario"}, {"Monto", "Descripcion"}}
        Recorta(fila, columnas) == [c \in columnas |-> fila[c]]
        Escritas ==
            {<<>>} \cup
            {h.archivo.filas :
                h \in UNION {guardar_en_excel(l, SinArchivo, "ok") : l \in Lotes}}
    IN  {SinArchivo, Ilegible} \cup
        {Hoja(columnas, [a \in 1..Len(filas) |-> Recorta(filas[a], columnas)]) :
            filas \in Escritas, columnas \in ColumnasPrevias}

ClaveFusion == CHOOSE k \in Claves : TRUE

EntradasFusion ==
    {[modo |-> "fusion", previo |-> a, transacciones |-> l] :
        a \in ArchivosPrevios, l \in Lotes}

InitFusion ==
    /\ ahora = Ahora0
    /\ entrada \in EntradasFusion
    /\ Len(entrada.previo.filas) + Len(entrada.transacciones) <= MaxFilas
    /\ archivos = [k \in Claves |-> IF k = ClaveFusion THEN entrada.previo
                                    ELSE SinArchivo]
    /\ user_data = [c \in Chats |-> [clave |-> "", indices |-> <<>>]]
    /\ conv = [c \in Chats |-> [auth |-> END, gasto |-> END, eliminar |-> END]]
    /\ ultimo = Resp("", "", "", "")
    /\ listado = [c \in Chats |-> SinListado]
    /\ salida = [hecho |-> FALSE, intentos |-> <<>>]

\* guardar_en_excel(transacciones, archivo) with the batch, again if wanted
fusionar ==
    LET archivo == archivos[ClaveFusion]
        Anota(r, escritura) ==
            /\ archivos' = [archivos EXCEPT ![ClaveFusion] = r.archivo]
            /\ salida' = [hecho |-> TRUE,
                          intentos |-> Append(salida.intentos,
                                              [ok |-> r.ok,
                                               escritura |-> escritura,
                                               antes |-> archivo])]
    IN  /\ Len(salida.intentos) < MaxIntentos
        /\ Len(archivo.filas) + Len(entrada.transacciones) <= MaxFilas
        /\ \E escritura \in Escrituras :
              \E r \in guardar_en_excel(entrada.transacciones, archivo,
                                        escritura) :
                 Anota(r, escritura)
        /\ UNCHANGED <<ahora, user_data, conv, ultimo, listado, entrada>>

NextFusion == fusionar

MergeSpec == InitFusion /\ [][NextFusion]_vars

(***************************************************************************)
(* The transcriber on its own: GoogleTranscriptor.transcribir (lines 9-28  *)
(* of GoogleTranscriptor.py) called for several voice messages.  A call    *)
(* gives way to other calls at its await of line 22, where the recognition *)
(* runs in a thread of the executor; the steps of a call are the pieces    *)
(* between those points.  entrada holds the audio each call is given,      *)
(* salida the file temp_converted.wav and the progress of each call.       *)
(***************************************************************************)
Llamadas == {"t1", "t2"}

\* the files handle_audio downloads (lines 361-365 of main.py), one per
\* message: the name carries the user and the time
AudiosDeVoz == {"audio_temp_file_1.oga", "audio_temp_file_2.oga",
                "audio_temp_file_3.oga"}

\* no file temp_converted.wav
SinWav == [de |-> ""]

\* AudioSegment.from_file(audio_path) exported as wav
wav(audio_path) == [de |-> audio_path]

\* recognizer.recognize_google(audio): the text said in the audio recorded
recognize_google(audio) == "texto de " \o audio.de

InitTranscripcion ==
    /\ Inicio
    /\ entrada \in {[modo |-> "transcripcion", audio_path |-> f] :
                        f \in {g \in [Llamadas -> AudiosDeVoz] :
                                  \A x, y \in Llamadas : x # y => g[x] # g[y]}}
    /\ salida = [hecho |-> FALSE, temp_converted |-> SinWav,
                 pc |-> [l \in Llamadas |-> "transcribir"],
                 audio |-> [l \in Llamadas |-> SinWav],
                 result |-> [l \in Llamadas |-> ""]]

\* convertir_a_wav, lines 30-41, called at line 14: the converted audio is
\* written to the fixed path "temp_converted.wav"
convertir_a_wav(l) ==
    /\ salida.pc[l] = "transcribir"
    /\ salida' = [salida EXCEPT !.temp_converted = wav(entrada.audio_path[l]),
                                !.pc[l] = "run_in_executor"]
    /\ UNCHANGED <<ahora, archivos, user_data, conv, ultimo, listado, entrada>>

\* sync_transcribe, lines 16-19, in the executor: the file at the path is
\* opened and recorded, or is not there (FileNotFoundError)
sync_transcribe(l) ==
    /\ salida.pc[l] = "run_in_executor"
    /\ salida' = IF salida.temp_converted = SinWav
                 THEN [salida EXCEPT !.pc[l] = "except"]
                 ELSE [salida EXCEPT !.audio[l] = salida.temp_converted,
                                     !.result[l] = recognize_google(salida.temp_converted),
                                     !.pc[l] = "os.remove"]
    /\ UNCHANGED <<ahora, archivos, user_data, conv, ultimo, listado, entrada>>

\* lines 23-28: the file at the path is removed and the result returned; a
\* path that is no longer there makes os.remove raise, and the except
\* clause raises again
os_remove(l) ==
    /\ salida.pc[l] \in {"os.remove", "except"}
    /\ salida' = IF salida.pc[l] = "os.remove" /\ salida.temp_converted # SinWav
                 THEN [salida EXCEPT !.temp_converted = SinWav, !.pc[l] = "return"]
                 ELSE [salida EXCEPT !.temp_converted = SinWav, !.result[l] = "",
                                     !.pc[l] = "raise"]
    /\ UNCHANGED <<ahora, archivos, user_data, conv, ultimo, listado, entrada>>

NextTranscripcion ==
    \/ \E l \in Llamadas : convertir_a_wav(l)
    \/ \E l \in Llamadas : sync_transcribe(l)
    \/ \E l \in Llamadas : os_remove(l)

TranscribeSpec == InitTranscripcion /\ [][NextTranscripcion]_vars




(***************************************************************************)
(* Properties.  The ones about the bot are read off the last reply         *)
(* (ultimo), which records what the handler was given and what it did.     *)
(***************************************************************************)
\* the last update was a text taken as the answer of /eliminargasto
Confirmo == ultimo.handler = "eliminar_gasto_confirmar"

\* the rows of the file of the chat of the last update
Ledger == archivos[user_data[ultimo.chat].clave].filas

\* the row the answered listing showed under the number typed
Mostrada == ultimo.listado.mostradas[ultimo.numero]

\* the answer is a number of the answered listing
NumeroListado == /\ ultimo.listado.mostradas # <<>>
                 /\ ultimo.numero \in 1..Len(ultimo.listado.mostradas)

\* despues is antes without the row at position i, the rest as it was
SinPosicion(antes, despues, i) ==
    /\ Len(despues) = Len(antes) - 1
    /\ \A j \in 1..Len(despues) :
          despues[j] = IF j < i THEN antes[j] ELSE antes[j + 1]

\* the number of copies of the row f in filas
Veces(filas, f) == Cardinality({i \in 1..Len(filas) : filas[i] = f})

\* an extracted entry as a file holds it: the date as datetime64[ns]
Guardada(g) == [g EXCEPT !.Fecha = to_datetime(@)]

\* C1: whatever happens to the ledger between the listing and the answer, a
\* confirmation of a number of the listing either removes exactly the entry
\* the listing showed under that number, or reports that the entry no longer
\* exists and removes nothing.
C1_ConfirmacionEliminaLaMostrada ==
    (Confirmo /\ NumeroListado) =>
        \/ /\ ultimo.clase = "Gasto eliminado"
           /\ ultimo.fila = Mostrada
           /\ \E i \in 1..Len(ultimo.antes) :
                 ultimo.antes[i] = Mostrada /\ SinPosicion(ultimo.antes, Ledger, i)
        \/ /\ ultimo.clase = "El gasto ya no existe"
           /\ Ledger = ultimo.antes

\* C2: the identifier by which an entry is addressed for deletion, its index
\* in the file, is stable: after a merge or a deletion every index that
\* addressed an entry before addresses the same entry or none.
C2_IdentificadorEstable ==
    ultimo.clase \in {"Gastos registrados", "Gasto eliminado",
                      "Ultima operacion eliminada"} =>
        \A i \in 1..Len(ultimo.antes) :
            i <= Len(Ledger) => Ledger[i] = ultimo.antes[i]

\* the write of the last update failed
FalloEscritura == ultimo.escritura \in Escrituras \ {"ok"}

\* C3: when the file is as it was when the listing was made, confirming a
\* number of the listing removes exactly the entry shown under it, leaves
\* every other row of the file as it was, and replies with the removed
\* entry, unless the write of the file fails.
C3_ConfirmacionSinCambios ==
    (/\ Confirmo /\ NumeroListado /\ ultimo.listado.filas = ultimo.antes
     /\ ~FalloEscritura) =>
        /\ ultimo.clase = "Gasto eliminado"
        /\ ultimo.fila = Mostrada
        /\ \E i \in 1..Len(ultimo.antes) :
              ultimo.antes[i] = Mostrada /\ SinPosicion(ultimo.antes, Ledger, i)

\* a listed entry was removed from an unchanged file that also holds a row
\* the listing leaves out: one without date or one older than 30 days
C3_Witness ==
    /\ Confirmo /\ NumeroListado /\ ultimo.listado.filas = ultimo.antes
    /\ ultimo.clase = "Gasto eliminado"
    /\ \E i \in 1..Len(Ledger) :
          Ledger[i].Fecha = NaT \/ Ledger[i].Fecha < ahora - Days(30)

\* the decimal numerals of the numbers of a listing
Numerales == <<"1", "2", "3", "4">>

\* C4: an answer that is not a number between 1 and the size of the listing
\* is reported as an invalid number and the file stays as it was.
C4_NumeroInvalido ==
    (/\ Confirmo
     /\ ultimo.listado.mostradas # <<>>
     /\ \A k \in 1..Len(ultimo.listado.mostradas) : ultimo.texto # Numerales[k])
    => /\ ultimo.clase = "Numero invalido"
       /\ Ledger = ultimo.antes

\* a number past the end of the listing was answered
C4_Witness ==
    /\ Confirmo
    /\ ultimo.clase = "Numero invalido"
    /\ ultimo.texto = "2"
    /\ Len(ultimo.listado.mostradas) = 1
    /\ Ledger # <<>>

\* C5: a confirmation removes an entry only when the chat has a listing that
\* no confirmation, /cancel or /logout has taken since, and the removal takes
\* that listing, so a listing enables at most one removal.
C5_ListadoAntesDeConfirmar ==
    [][(/\ ultimo'.handler = "eliminar_gasto_confirmar"
        /\ ultimo'.clase = "Gasto eliminado"
        /\ ahora' = ahora)
       => /\ listado[ultimo'.chat].mostradas # <<>>
          /\ listado'[ultimo'.chat] = SinListado]_vars

\* an entry was removed and the conversation ended
C5_Witness ==
    /\ Confirmo
    /\ ultimo.clase = "Gasto eliminado"
    /\ listado[ultimo.chat] = SinListado
    /\ conv[ultimo.chat].eliminar = END

\* C6: a merge of n extracted entries into a file of m rows leaves m + n
\* rows: every row has the copies it had plus the copies the batch brings.
C6_SinDeduplicar ==
    ultimo.clase = "Gastos registrados" =>
        /\ Len(Ledger) = Len(ultimo.antes) + Len(ultimo.guardadas)
        /\ \A i \in 1..Len(Ledger) :
              Veces(Ledger, Ledger[i]) =
                  Veces(ultimo.antes, Ledger[i])
                  + Cardinality({k \in 1..Len(ultimo.guardadas) :
                                    Guardada(ultimo.guardadas[k]) = Ledger[i]})
        /\ \A i \in 1..Len(ultimo.antes) : Veces(Ledger, ultimo.antes[i]) >= 1

\* the same batch was merged a second time and the file holds both copies
C6_Witness ==
    /\ ultimo.clase = "Gastos registrados"
    /\ ultimo.guardadas # <<>>
    /\ Veces(ultimo.antes, Guardada(ultimo.guardadas[1])) = 1
    /\ Veces(Ledger, Guardada(ultimo.guardadas[1])) = 2

\* the lines of the text of the last update that are valid on their own
LineasValidas ==
    {i \in 1..Len(TablaLineas[ultimo.texto]) :
        procesar_linea(i, TablaLineas[ultimo.texto][i], Nombre(ultimo.chat),
                       ahora).ok}

\* the entry of line i of the text of the last update
EntradaDeLinea(i) ==
    Guardada(procesar_linea(i, TablaLineas[ultimo.texto][i],
                            Nombre(ultimo.chat), ahora).entrada)

\* C7: when a text message has been processed, every line of it that is
\* valid on its own has been saved, whatever the other lines are: the file
\* holds one more copy of its entry for each valid line that yields it.
C7_ExitoParcial ==
    (/\ ultimo.handler \in {"handle_generic_text_message",
                            "procesar_gastos_texto_comando"}
     /\ ultimo.clase \in {"Gastos registrados", "Errores encontrados"})
    => \A i \in LineasValidas :
          /\ ultimo.clase = "Gastos registrados"
          /\ Veces(Ledger, EntradaDeLinea(i)) =
                 Veces(ultimo.antes, EntradaDeLinea(i))
                 + Cardinality({k \in LineasValidas :
                                   EntradaDeLinea(k) = EntradaDeLinea(i)})

\* a message with a line of each kind of error and a valid line was saved
C7_Witness ==
    /\ ultimo.clase = "Gastos registrados"
    /\ {ultimo.errores[i].clase : i \in 1..Len(ultimo.errores)} =
           {"Formato incorrecto", "Monto invalido", "Fecha invalida"}
    /\ LineasValidas # {}
    /\ \A i \in LineasValidas : Veces(Ledger, EntradaDeLinea(i)) >= 1

\* the amount token of the drawn message
Token == Chars(entrada.monto)

\* the drawn message has no date or a date that resolves
FechaResoluble == entrada.fecha \in {"", " (ayer)"}

\* the digits of an amount token
SoloDigitos(cs) == Replace(Replace(cs, ".", <<>>), ",", <<>>)

\* the position of the last separator of an amount token
UltimoSeparador(cs) ==
    CHOOSE i \in 1..Len(cs) :
        cs[i] \in {".", ","} /\ \A j \in (i + 1)..Len(cs) : cs[j] \notin {".", ","}

\* C8: a structured line "<amount> <connector> <description>" with a valid
\* amount and no date yields exactly one entry and no error, with the value
\* of the whole amount token and the date of today at 12:00.
C8_LineaSimple ==
    (/\ salida.hecho
     /\ entrada.modo = "texto"
     /\ entrada.fecha = ""
     /\ parsear_monto(Token).ok)
    => /\ Len(salida.transacciones) = 1
       /\ salida.errores = <<>>
       /\ salida.transacciones[1].Monto = parsear_monto(Token).val
       /\ salida.transacciones[1].Fecha = AtNoon(entrada.hoy)

\* C9: for an amount token with both '.' and ',' the last separator is the
\* decimal one and the earlier ones are dropped: the structured line records
\* the digits of the token with as many decimals as follow its last separator.
C9_UltimoSeparadorDecimal ==
    (/\ salida.hecho
     /\ entrada.modo = "texto"
     /\ FechaResoluble
     /\ Contains(Token, ".") /\ Contains(Token, ","))
    => /\ Len(salida.transacciones) = 1
       /\ salida.transacciones[1].Monto =
              Normal(DigitsValue(SoloDigitos(Token)),
                     Len(Token) - UltimoSeparador(Token))

\* C10: for an amount token with '.' and no ',', in both modes, the dot is a
\* thousands separator and is dropped, unless fewer than 3 digits follow the
\* last dot, and then it is the decimal point.
C10_PuntoDeMiles ==
    (/\ salida.hecho
     /\ FechaResoluble
     /\ Contains(Token, ".") /\ ~Contains(Token, ","))
    => /\ Len(salida.transacciones) = 1
       /\ salida.transacciones[1].Monto =
              Normal(DigitsValue(SoloDigitos(Token)),
                     IF Len(Token) - UltimoSeparador(Token) < 3
                     THEN Len(Token) - UltimoSeparador(Token)
                     ELSE 0)

\* C11: every entry the extractors produce, in narrative and in structured
\* mode, has an amount greater than zero.
C11_MontoPositivo ==
    salida.hecho =>
        \A i \in 1..Len(salida.transacciones) :
            Positive(salida.transacciones[i].Monto)

\* the text of the last update went through the structured extraction
TextoExtraido ==
    /\ ultimo.handler \in {"handle_generic_text_message",
                           "procesar_gastos_texto_comando"}
    /\ ultimo.clase \in {"Gastos registrados", "Errores encontrados"}

\* fragmento occurs in the line cs
EsFragmento(fragmento, cs) ==
    \E a \in 1..Len(cs) : \E b \in a..Len(cs) : Join(SubSeq(cs, a, b)) = fragmento

\* C16: each candidate line of a message yields exactly one of an entry or
\* an error, so the entries and the errors of the reply add up to the lines;
\* each error has the 1-based number of its line, which is a line that yields
\* no entry, and a fragment of that line; the reply lists the entries and the
\* errors apart.
C16_CuentaDeLineas ==
    TextoExtraido =>
        LET ls == TablaLineas[ultimo.texto]
            es == ultimo.errores
        IN  /\ Len(ultimo.guardadas) + Len(es) = Len(ls)
            /\ \A k \in 1..Len(es) :
                  /\ es[k].linea \in 1..Len(ls)
                  /\ es[k].linea \notin LineasValidas
                  /\ EsFragmento(es[k].fragmento, ls[es[k].linea])
                  /\ \A j \in 1..(k - 1) : es[j].linea < es[k].linea
            /\ \A k \in 1..Len(ultimo.guardadas) :
                  \E i \in LineasValidas :
                      procesar_linea(i, ls[i], Nombre(ultimo.chat), ahora).entrada
                          = ultimo.guardadas[k]

\* a message of four lines was answered with one entry and the errors of
\* lines 1, 2 and 4
C16_Witness ==
    /\ TextoExtraido
    /\ Len(TablaLineas[ultimo.texto]) = 4
    /\ Len(ultimo.guardadas) = 1
    /\ [k \in 1..Len(ultimo.errores) |-> ultimo.errores[k].linea] = <<1, 2, 4>>

\* the day d of month m exists in year y
Existe(d, m, y) == d <= DaysInMonth(y, m)

\* the year a token with a year states: the four digits, or the two digits
\* in the century of the documented rule
AnioEscrito ==
    IF entrada.digitos = 4 THEN entrada.anio
    ELSE IF entrada.anio < 70 THEN 2000 + entrada.anio ELSE 1900 + entrada.anio

\* the year of a token without year: the current one, or the one before
\* when the day would be more than a day ahead
AnioElegido ==
    IF DateTime(YearOf(entrada.hoy), entrada.m, entrada.d, 12)
           > entrada.hoy + Days(1)
    THEN YearOf(entrada.hoy) - 1 ELSE YearOf(entrada.hoy)

\* C17: a date with a year that is more than three days after now fails
\* with the error of a future date, not with that of an unsupported format.
C17_FechaFuturaDistinta ==
    (/\ salida.hecho
     /\ entrada.digitos # 0
     /\ Existe(entrada.d, entrada.m, AnioEscrito)
     /\ DateTime(AnioEscrito, entrada.m, entrada.d, 12) > entrada.hoy + Days(3))
    => /\ ~salida.fecha.ok
       /\ salida.fecha.error = "Fecha futura no permitida"

\* C18: a day and month without year resolve to that day at 12:00 of the
\* current year, or of the year before when that is more than a day ahead,
\* for every day that exists in the year chosen.
C18_DiaMesSinAnio ==
    (/\ salida.hecho
     /\ entrada.digitos = 0
     /\ Existe(entrada.d, entrada.m, YearOf(entrada.hoy))
     /\ Existe(entrada.d, entrada.m, AnioElegido))
    => /\ salida.fecha.ok
       /\ salida.fecha.ts = DateTime(AnioElegido, entrada.m, entrada.d, 12)

\* C19: a year of two digits yy is 2000 + yy when yy < 70 and 1900 + yy
\* otherwise, and the future check applies to that year.
C19_SigloDeDosDigitos ==
    (/\ salida.hecho
     /\ entrada.digitos = 2
     /\ Existe(entrada.d, entrada.m, AnioEscrito))
    => IF DateTime(AnioEscrito, entrada.m, entrada.d, 12) > entrada.hoy + Days(3)
       THEN ~salida.fecha.ok
       ELSE /\ salida.fecha.ok
            /\ salida.fecha.ts = DateTime(AnioEscrito, entrada.m, entrada.d, 12)

\* the clauses of the drawn transcript have plain amounts: digits, not zero
MontosSimples ==
    \A i \in 1..Len(entrada.clausulas) :
        LET cs == Chars(entrada.clausulas[i].monto)
        IN  (\A j \in 1..Len(cs) : IsDigit(cs[j])) /\ DigitsValue(cs) > 0

\* C20: a transcript of k clauses "<verb> <amount> en <item>" yields k
\* entries in the order of the text; entry i is a purchase for "compre" and
\* an expense for "gaste", with the amount of clause i and, as description,
\* the capitalized item of clause i.
C20_ExtraccionNarrativa ==
    (/\ salida.hecho
     /\ entrada.modo = "audio"
     /\ MontosSimples)
    => /\ Len(salida.transacciones) = Len(entrada.clausulas)
       /\ \A i \in 1..Len(entrada.clausulas) :
             LET c == entrada.clausulas[i]
                 t == salida.transacciones[i]
             IN  /\ t.Tipo = IF Join(normalizar_texto(Chars(c.verbo))) = "compre"
                             THEN "compra" ELSE "gasto"
                 /\ t.Monto = Normal(DigitsValue(Chars(c.monto)), 0)
                 /\ t.Descripcion = Join(Capitalize(Chars(c.item)))

\* the replies that state a failure of the write
RespuestasDeFallo == {"Fallo el guardado", "Error al guardar los cambios",
                      "Error inesperado"}

\* the replies that state that entries were registered or an entry deleted
RespuestasDeExito == {"Gastos registrados", "Gasto eliminado",
                      "Ultima operacion eliminada"}

\* C14: when the write of the file fails in a text registration, a voice
\* registration, a selective deletion or a deletion of the last operation,
\* the reply states the failure and names no registered or deleted entry.
C14_FalloNoEsExito ==
    (/\ FalloEscritura
     /\ ultimo.handler \in {"handle_generic_text_message",
                            "procesar_gastos_texto_comando", "handle_audio",
                            "eliminar_gasto_confirmar", "eliminar_operacion"})
    => /\ ultimo.clase \in RespuestasDeFallo
       /\ ultimo.clase \notin RespuestasDeExito
       /\ ultimo.guardadas = <<>>
       /\ ultimo.fila = SinFila

\* the write failed for a message with a valid line and lines in error, and
\* left the file unreadable
C14_Witness ==
    /\ ultimo.handler = "handle_generic_text_message"
    /\ ultimo.escritura = "trunca"
    /\ ultimo.clase = "Fallo el guardado"
    /\ ultimo.errores # <<>>
    /\ LineasValidas # {}
    /\ archivos[user_data[ultimo.chat].clave] = Ilegible

\* the last call of the merge, the file it left and the batch as stored
Intento == salida.intentos[Len(salida.intentos)]
Archivo == archivos[ClaveFusion]
Lote == [a \in 1..Len(entrada.transacciones) |->
            Guardada(entrada.transacciones[a])]

\* the file could be read: it is there and it is a sheet
Legible(archivo) == archivo.existe /\ archivo.legible

\* the missing value of a column
Nulo(c) == IF c = "Fecha" THEN NaT ELSE IF c = "Monto" THEN NaN ELSE NA

\* the rows of a sheet with a missing value in every cell they lack
ConNulos(filas) ==
    [a \in 1..Len(filas) |->
        [c \in Columnas |-> IF c \in DOMAIN filas[a] THEN filas[a][c]
                            ELSE Nulo(c)]]

\* f and g hold the same rows, each as many times
MismasFilas(f, g) ==
    /\ Len(f) = Len(g)
    /\ \A i \in 1..Len(f) : Veces(f, f[i]) = Veces(g, f[i])

\* the file is a sheet with the five columns and every row has them all
HojaCanonica(archivo) ==
    /\ Legible(archivo)
    /\ archivo.columnas = Columnas
    /\ \A i \in 1..Len(archivo.filas) : DOMAIN archivo.filas[i] = Columnas

\* C12: a merge into a file that is missing or cannot be read, when its
\* write succeeds, reports success and leaves a sheet with the columns
\* Fecha, Usuario, Tipo, Monto, Descripcion that holds the batch and nothing
\* else.
C12_SinArchivoUtil ==
    (/\ salida.intentos # <<>>
     /\ ~Legible(Intento.antes)
     /\ Intento.escritura = "ok")
    => /\ Intento.ok
       /\ HojaCanonica(Archivo)
       /\ MismasFilas(Archivo.filas, Lote)

\* a batch of two entries was merged into an unreadable file
C12_Witness ==
    /\ salida.intentos # <<>>
    /\ Intento.antes = Ilegible
    /\ Intento.ok
    /\ Len(Lote) = 2
    /\ Len(Archivo.filas) = 2

\* C13: a merge into a sheet that has rows and lacks some of the columns,
\* when its write succeeds, reports success and leaves every row of the
\* sheet, with missing values in the cells it lacked, and the batch.
C13_ColumnasFaltantes ==
    (/\ salida.intentos # <<>>
     /\ Legible(Intento.antes)
     /\ Intento.antes.filas # <<>>
     /\ Intento.antes.columnas # Columnas
     /\ Intento.escritura = "ok")
    => /\ Intento.ok
       /\ HojaCanonica(Archivo)
       /\ MismasFilas(Archivo.filas, ConNulos(Intento.antes.filas) \o Lote)

\* a batch was merged into a sheet that has only Monto and Descripcion, and
\* the row of the sheet is in the file with no date, user or kind
C13_Witness ==
    /\ salida.intentos # <<>>
    /\ Intento.ok
    /\ Intento.antes.columnas = {"Monto", "Descripcion"}
    /\ Len(Intento.antes.filas) = 1
    /\ \E i \in 1..Len(Archivo.filas) :
          /\ Archivo.filas[i].Monto = Intento.antes.filas[1].Monto
          /\ Archivo.filas[i].Fecha = NaT
          /\ Archivo.filas[i].Usuario = NA
          /\ Archivo.filas[i].Tipo = NA

\* a merge of the batch reported failure and the next one reported success
Reintento ==
    /\ Len(salida.intentos) = 2
    /\ ~salida.intentos[1].ok
    /\ salida.intentos[2].ok

\* the rows the file had before the first merge
Previas == IF Legible(entrada.previo) THEN ConNulos(entrada.previo.filas)
           ELSE <<>>

\* C15: after a merge that reported failure and a merge of the same batch
\* that reported success, the file holds the rows it had before the two
\* merges and, in addition to them, every entry of the batch once.
C15_ReintentoSinDuplicar ==
    Reintento => MismasFilas(Archivo.filas, Previas \o Lote)

\* the clauses of the transcript whose amount float() rejects
ClausulasFallidas ==
    {i \in 1..Len(entrada.clausulas) :
        ~cantidad_audio(Chars(entrada.clausulas[i].monto)).ok}

\* C21: the extraction of a transcript returns an error for each clause
\* whose amount cannot be parsed and an entry for each of the other clauses.
C21_MontoFallidoAudio ==
    (salida.hecho /\ entrada.modo = "audio") =>
        /\ Len(salida.errores) = Cardinality(ClausulasFallidas)
        /\ Len(salida.transacciones) =
               Len(entrada.clausulas) - Cardinality(ClausulasFallidas)

\* the last update was a report that looked at the rows of the file
Reporto == /\ ultimo.handler \in {"gasto_semanal", "gasto_mensual"}
           /\ ultimo.clase \in {"Resumen", "No encontre gastos"}

\* the start of the period of the last report: the Monday of the week, or
\* the first day of the month, at 00:00
InicioDelPeriodo ==
    IF ultimo.handler = "gasto_semanal"
    THEN CHOOSE t \in (ahora - Days(7))..ahora :
            t % 24 = 0 /\ weekday(t) = 0 /\ ahora - t < Days(7)
    ELSE DateTime(YearOf(ahora), MonthOf(ahora), 1, 0)

\* the rows of the file that lie in the period up to the moment of the report
DelPeriodo ==
    {i \in 1..Len(ultimo.antes) :
        /\ ultimo.antes[i].Tipo \in {"gasto", "compra"}
        /\ ultimo.antes[i].Fecha # NaT
        /\ InicioDelPeriodo <= ultimo.antes[i].Fecha
        /\ ultimo.antes[i].Fecha <= ahora}

\* the sum of the amounts of the rows of filas at the positions of pos
RECURSIVE SumaDe(_, _)
SumaDe(filas, pos) ==
    IF pos = {} THEN Normal(0, 0)
    ELSE LET i == CHOOSE i \in pos : TRUE
         IN  Mas(filas[i].Monto, SumaDe(filas, pos \ {i}))

\* C22: a weekly or monthly report counts the entries of kind gasto or
\* compra whose date lies between the start of the period and the moment of
\* the report, and no other: an entry dated later is not counted.
C22_VentanaDelReporte ==
    Reporto => /\ ultimo.n = Cardinality(DelPeriodo)
               /\ ultimo.total = SumaDe(ultimo.antes, DelPeriodo)

\* the rows of the file the last report took: those of kind gasto or compra
\* dated in its period
Incluidas ==
    {i \in 1..Len(ultimo.antes) :
        /\ ultimo.antes[i].Tipo \in {"gasto", "compra"}
        /\ ultimo.antes[i].Fecha # NaT
        /\ InicioDelPeriodo <= ultimo.antes[i].Fecha
        /\ ultimo.handler = "gasto_mensual" =>
               MonthOf(ultimo.antes[i].Fecha) = MonthOf(ahora)}

\* the rows the last report took whose description, in lower case and
\* without the spaces around it, is k
DelGrupo(k) ==
    {i \in Incluidas :
        Join(Strip(Lower(Chars(ultimo.antes[i].Descripcion)))) = k}

\* the sum of the totals of the first n groups of the last report
RECURSIVE SumaDeGrupos(_)
SumaDeGrupos(n) ==
    IF n = 0 THEN Normal(0, 0)
    ELSE Mas(SumaDeGrupos(n - 1), ultimo.detalles[n].Monto_Total)

\* C23: in a report every entry taken is in exactly one group, the one of
\* its description in lower case and trimmed; the total of a group is the
\* sum of its entries, the total of the report is the sum of the totals of
\* the groups, and the groups are listed from the largest total down.
C23_GruposDelReporte ==
    (Reporto /\ ultimo.clase = "Resumen") =>
        LET d == ultimo.detalles
        IN  /\ \A i \in Incluidas :
                  Cardinality({a \in 1..Len(d) : i \in DelGrupo(d[a].Descripcion_Norm)}) = 1
            /\ \A a \in 1..Len(d) :
                  /\ DelGrupo(d[a].Descripcion_Norm) # {}
                  /\ d[a].Monto_Total =
                         SumaDe(ultimo.antes, DelGrupo(d[a].Descripcion_Norm))
            /\ \A a, b \in 1..Len(d) :
                  a < b => /\ d[a].Descripcion_Norm # d[b].Descripcion_Norm
                           /\ ~MenorQue(d[a].Monto_Total, d[b].Monto_Total)
            /\ ultimo.total = SumaDeGrupos(Len(d))

\* a report of two groups, the larger first in the report and last in the file
C23_Witness ==
    /\ Reporto
    /\ Len(ultimo.detalles) = 2
    /\ MenorQue(ultimo.detalles[2].Monto_Total, ultimo.detalles[1].Monto_Total)
    /\ Join(Strip(Lower(Chars(ultimo.antes[2].Descripcion)))) =
           ultimo.detalles[1].Descripcion_Norm

\* C24: a login with a valid key creates the file of the key, empty and with
\* the five columns, when there is none and the write succeeds; when the
\* file is there the login leaves it, and every other file, as it was.
C24_ArchivoAlIngresar ==
    [][(/\ ultimo'.handler = "handle_key"
        /\ ultimo'.clase # "Clave no valida"
        /\ ahora' = ahora)
       => LET k == user_data'[ultimo'.chat].clave
          IN  /\ archivos[k].existe => archivos' = archivos
              /\ (~archivos[k].existe /\ ultimo'.escritura = "ok") =>
                     archivos' = [archivos EXCEPT ![k] = Hoja(Columnas, <<>>)]
              /\ (~archivos[k].existe /\ ultimo'.escritura # "ok") =>
                     ~Legible(archivos'[k])]_vars

\* a login with the key of a file that holds entries
C24_Witness ==
    /\ ultimo.handler = "handle_key"
    /\ ultimo.clase = "Has iniciado sesion"
    /\ Legible(archivos[user_data[ultimo.chat].clave])
    /\ Ledger # <<>>

\* the handlers that work on the file of the session
ManejadoresDeArchivo ==
    {"handle_generic_text_message", "procesar_gastos_texto_comando",
     "registrar_gasto_texto_comando_start", "handle_audio", "gasto_semanal",
     "gasto_mensual", "descargar_excel", "eliminar_operacion",
     "eliminar_gasto_start", "eliminar_gasto_confirmar"}

\* C25: a file changes only in a step that leaves a key in the session of
\* the chat; /logout takes the key out of the session; and a handler that
\* works on the file, called for a chat whose session holds no key, the
\* pending step of a conversation included, refuses with the login or the
\* internal-error reply, shows nothing of any file and leaves every file as
\* it was.
C25_SoloConClave ==
    [][/\ archivos' # archivos => user_data'[ultimo'.chat].clave # ""
       /\ (ultimo'.handler = "logout" /\ ahora' = ahora) =>
              user_data'[ultimo'.chat].clave = ""
       /\ (/\ ultimo'.handler \in ManejadoresDeArchivo
           /\ ahora' = ahora
           /\ user_data[ultimo'.chat].clave = "")
          => /\ archivos' = archivos
             /\ ultimo'.clase \in {"Necesitas iniciar sesion", "Error interno"}
             /\ ultimo'.antes = <<>> /\ ultimo'.guardadas = <<>>
             /\ ultimo'.fila = SinFila /\ ultimo'.detalles = <<>>
             /\ ultimo'.n = 0]_vars

\* the answer to a listing made before /logout was refused, and the file
\* still holds its entries
C25_Witness ==
    /\ ultimo.handler = "eliminar_gasto_confirmar"
    /\ ultimo.clase = "Error interno"
    /\ user_data[ultimo.chat].clave = ""
    /\ \E k \in Claves : archivos[k].filas # <<>>

\* the text is the number of an entry of the listing
NumeroDe(texto, lista) ==
    \E k \in 1..Len(lista.mostradas) : texto = Numerales[k]

\* C26: an answer to a listing that is not one of its numbers leaves the
\* conversation waiting for a number, and a valid number k sent next, with
\* no /eliminargasto in between, removes the entry the listing showed at k
\* (when the write of the file succeeds).
C26_ReintentoDeNumero ==
    [][(/\ ultimo.handler = "eliminar_gasto_confirmar"
        /\ ultimo.clase = "Numero invalido"
        /\ ultimo'.handler = "eliminar_gasto_confirmar"
        /\ ultimo'.chat = ultimo.chat
        /\ NumeroDe(ultimo'.texto, ultimo.listado)
        /\ ahora' = ahora)
       => /\ conv[ultimo.chat].eliminar = ESPERANDO_NUMERO_ELIMINAR
          /\ \/ ultimo'.escritura \in Escrituras \ {"ok"}
             \/ \E k \in 1..Len(ultimo.listado.mostradas) :
                   /\ ultimo'.texto = Numerales[k]
                   /\ ultimo'.clase = "Gasto eliminado"
                   /\ ultimo'.fila = ultimo.listado.mostradas[k]]_vars

\* the answers of /eliminargasto that list nothing
NadaQueListar ==
    {"Sin registros", "Archivo vacio", "Sin fechas validas",
     "No encontre gastos en los ultimos 30 dias"}

\* C27: when /eliminargasto finds nothing to list, the deletion conversation
\* of the chat is left ended, so that a later /eliminargasto is taken as a
\* new entry into the conversation.
C27_SinListadoTermina ==
    (ultimo.handler = "eliminar_gasto_start" /\ ultimo.clase \in NadaQueListar)
        => conv[ultimo.chat].eliminar = END

\* C28: /eliminaroperacion sent right after a registration that succeeded
\* removes exactly one row, a row that registration added, whatever its
\* date; the other rows stay as they were and the reply shows the row
\* removed.
C28_UltimaRegistrada ==
    [][(/\ ultimo.clase = "Gastos registrados"
        /\ ultimo.guardadas # <<>>
        /\ ultimo'.handler = "eliminar_operacion"
        /\ ultimo'.clase = "Ultima operacion eliminada"
        /\ ultimo'.chat = ultimo.chat)
       => LET clave == user_data[ultimo.chat].clave
              filas == archivos[clave].filas
          IN  /\ \E k \in 1..Len(ultimo.guardadas) :
                    ultimo'.fila = Guardada(ultimo.guardadas[k])
              /\ \E i \in 1..Len(filas) :
                    /\ filas[i] = ultimo'.fila
                    /\ archivos'[clave].filas = Drop(filas, i - 1)]_vars

\* the rows of a batch as a file holds them
Guardadas(lote) == [a \in 1..Len(lote) |-> Guardada(lote[a])]

\* C29: with two chats on one key, in every step of any interleaving of
\* their handlers the readable file of the key changes by exactly what the
\* handler of the step reports: the rows of a registration that succeeded
\* are added, the row a deletion reports is removed, and every other row is
\* kept as many times as it was there.
C29_SinActualizacionPerdida ==
    [][\A k \in Claves :
          (/\ archivos[k].existe /\ archivos[k].legible
           /\ archivos'[k].existe /\ archivos'[k].legible)
          => LET antes == archivos[k].filas
                 despues == archivos'[k].filas
                 nuevas == IF ultimo'.clase = "Gastos registrados"
                           THEN Guardadas(ultimo'.guardadas) ELSE <<>>
                 quitadas == IF ultimo'.clase \in {"Gasto eliminado",
                                                  "Ultima operacion eliminada"}
                             THEN <<ultimo'.fila>> ELSE <<>>
             IN  \A f \in {antes[i] : i \in DOMAIN antes}
                          \cup {despues[i] : i \in DOMAIN despues}
                          \cup {nuevas[i] : i \in DOMAIN nuevas}
                          \cup {quitadas[i] : i \in DOMAIN quitadas} :
                    Veces(despues, f) + Veces(quitadas, f)
                        = Veces(antes, f) + Veces(nuevas, f)]_vars

\* a chat removed an entry of a listing made before the other chat
\* registered one, and the entry of the other chat is in the file
C29_Witness ==
    /\ ultimo.handler = "eliminar_gasto_confirmar"
    /\ ultimo.clase = "Gasto eliminado"
    /\ ultimo.chat = "c1"
    /\ Len(ultimo.antes) > Len(ultimo.listado.filas)
    /\ \E i \in DOMAIN Ledger : Ledger[i].Usuario = "Luis"

\* C30: every readable file, from the empty one made at the first login on
\* through registrations, selective deletions and deletions of the last
\* operation, has its rows in ascending order of Fecha, the rows without
\* date first.
C30_ArchivoOrdenado ==
    \A k \in Claves :
       (archivos[k].existe /\ archivos[k].legible)
       => \A i, j \in DOMAIN archivos[k].filas :
             i < j => \/ archivos[k].filas[i].Fecha = NaT
                      \/ /\ archivos[k].filas[j].Fecha # NaT
                         /\ archivos[k].filas[i].Fecha <= archivos[k].filas[j].Fecha

\* a registration put its entry before the entry registered earlier
C30_Witness ==
    /\ ultimo.clase = "Gastos registrados"
    /\ Len(ultimo.antes) = 1 /\ Len(ultimo.guardadas) = 1
    /\ Len(Ledger) = 2
    /\ Ledger[1] = Guardada(ultimo.guardadas[1])
    /\ Ledger[2] = ultimo.antes[1]
    /\ Ledger[1].Fecha # Ledger[2].Fecha

ManejadoresDeTexto ==
    {"handle_key", "procesar_gastos_texto_comando",
     "eliminar_gasto_confirmar", "handle_generic_text_message"}

\* C32: a text is handled by one handler.  While a conversation waits for
\* the key, the text of /registrargasto or a number, the generic text
\* handler does not take the text; the text taken as a key or as a number
\* adds no row to any file, and a text taken as expenses adds its entries
\* once.
C32_UnSoloManejador ==
    [][(ahora' = ahora /\ ultimo'.handler \in ManejadoresDeTexto)
       => LET c == ultimo'.chat
          IN  /\ (\/ conv[c].auth = ASKING_KEY
                  \/ conv[c].gasto = ESPERANDO_GASTOS_COMANDO
                  \/ conv[c].eliminar = ESPERANDO_NUMERO_ELIMINAR)
                 => ultimo'.handler # "handle_generic_text_message"
              /\ ultimo'.handler \in {"handle_key", "eliminar_gasto_confirmar"}
                 => /\ ultimo'.guardadas = <<>>
                    /\ \A k \in DOMAIN archivos :
                          Len(archivos'[k].filas) <= Len(archivos[k].filas)
              /\ ultimo'.handler \in {"procesar_gastos_texto_comando",
                                      "handle_generic_text_message"}
                 => \A k \in DOMAIN archivos :
                       archivos'[k].legible
                       => Len(archivos'[k].filas)
                             = Len(archivos[k].filas)
                                 + (IF k = user_data[c].clave
                                    THEN Len(ultimo'.guardadas) ELSE 0)]_vars

\* a number sent as the choice of a deletion removed the entry and the file
\* holds no entry made of that number
C32_Witness ==
    /\ ultimo.handler = "eliminar_gasto_confirmar"
    /\ ultimo.clase = "Gasto eliminado"
    /\ ultimo.texto = "1"
    /\ Len(Ledger) = Len(ultimo.antes) - 1

\* C33: a date the resolver accepts is at most three days after now, and at
\* most one day after now when the token has no year.
C33_FechaAcotada ==
    (salida.hecho /\ salida.fecha.ok)
    => /\ salida.fecha.ts <= entrada.hoy + Days(3)
       /\ entrada.digitos = 0 => salida.fecha.ts <= entrada.hoy + Days(1)

\* a date with a year between one and three days after now is accepted
C33_Witness ==
    /\ salida.hecho /\ salida.fecha.ok
    /\ entrada.digitos # 0
    /\ salida.fecha.ts > entrada.hoy + Days(1)
    /\ salida.fecha.ts <= entrada.hoy + Days(3)

\* the clauses of the drawn transcript that state an amount
ClausulasConMonto ==
    {i \in 1..Len(entrada.clausulas) : entrada.clausulas[i].monto # ""}

\* C34: in a transcript whose clauses state a plain amount or none, the
\* entries are those of the clauses that state an amount, in their order:
\* a verb with no amount before the next verb yields no entry, and each
\* entry has the kind of the verb of its own clause and its amount.
C34_MontoDelVerbo ==
    (/\ salida.hecho
     /\ entrada.modo = "audio"
     /\ \A i \in ClausulasConMonto :
           LET cs == Chars(entrada.clausulas[i].monto)
           IN  (\A j \in 1..Len(cs) : IsDigit(cs[j])) /\ DigitsValue(cs) > 0)
    => /\ Len(salida.transacciones) = Cardinality(ClausulasConMonto)
       /\ \A i \in ClausulasConMonto :
             LET c == entrada.clausulas[i]
                 t == salida.transacciones[Cardinality({j \in ClausulasConMonto : j <= i})]
             IN  /\ t.Tipo = IF Join(normalizar_texto(Chars(c.verbo))) = "compre"
                             THEN "compra" ELSE "gasto"
                 /\ t.Monto = Normal(DigitsValue(Chars(c.monto)), 0)

\* the rows of `filas` in ascending order of Fecha, the rows without date
\* first, rows of equal date in the order they have in `filas`
OrdenEstable(filas) ==
    LET Antes(j, i) == \/ filas[j].Fecha < filas[i].Fecha
                       \/ filas[j].Fecha = filas[i].Fecha /\ j < i
    IN  [a \in DOMAIN filas |->
            filas[CHOOSE i \in DOMAIN filas :
                     Cardinality({j \in DOMAIN filas : Antes(j, i)}) = a - 1]]

C36_CancelTermina ==
    [][(ultimo'.handler = "cancel" /\ ahora' = ahora /\ conv' # conv)
       => LET c == ultimo'.chat
          IN  /\ archivos' = archivos
              /\ user_data'[c].indices = <<>>
              /\ conv[c].auth = ASKING_KEY => conv'[c].auth = END
              /\ conv[c].gasto = ESPERANDO_GASTOS_COMANDO => conv'[c].gasto = END
              /\ conv[c].eliminar = ESPERANDO_NUMERO_ELIMINAR
                 => conv'[c].eliminar = END]_vars

=============================================================================
